---- MODULE Spec2Model ----
(***************************************************************************)
(* Model of the meter-data pipeline: the deduplicating loader              *)
(* (include/cloud_loader.py), the ETL run and its streaming transform      *)
(* (include/etl_processor.py), the schema resolver                         *)
(* (include/etl_processor.py, determine_schema_mapping) and the lazy plan  *)
(* that derives ROW_HASH (include/etl_processor.py, build_lazy_pipeline).  *)
(*                                                                         *)
(* The warehouse, the object store, the file system and the mapping oracle *)
(* are the environment: every call the code makes to them either succeeds  *)
(* or raises, chosen by \E in the action that models the call.             *)
(***************************************************************************)
EXTENDS Integers, Sequences, FiniteSets, TLC

\* ------------------------------------------------------------------ bounds
\* ROW_HASH values that occur in staged files: 1..MaxHash.
MaxHash == 2
\* Largest number of rows in the staged files of one loader run, all files
\* together, and in one CSV file of an ETL run.
MaxRows == 2
\* Largest number of staged files one loader run finds.
MaxFiles == 2
\* The number of edits between a seed header list and the raw header list
\* the resolver is given.
MaxEdits == 1
\* The minutes of the hour of the rows' timestamps: 0..MaxMinute.
MaxMinute == 1
\* The width of the string hash in bits, for the 64 of Expr.hash().
HashBits == 4

\* The largest number of characters in the header line of a CSV file.
MaxLine == 5
\* The number of loader runs that write to one pipeline_stats table.
MaxRuns == 2

\* The number of characters of an error text a failed record keeps
\* (cloud_loader.py, line 245).
ERROR_MESSAGE_CHARS == 500

VARIABLES
    target,     \* the warehouse target table: [exists, hasHash, fromLoader, rows]
    temps,      \* the temporary tables that exist in the warehouse (their ids)
    ld,         \* the loader run of each worker: main's and load_gcs_to_bigquery's locals
    returned,   \* history: the load attempts that have returned, see Attempt
    audit,      \* the pipeline_stats table: the records written so far
    raw,        \* resolver: the raw header list determine_schema_mapping is given
    edits,      \* resolver: the number of edits that made `raw`
    rpc,        \* resolver: where the call of determine_schema_mapping stands
    important_mapping_result,   \* resolver: what map_important_columns_with_gemini answered
    validation,        \* resolver: what validate_schema_with_gemini answered
    schema_result,      \* resolver: what determine_schema_mapping returned or raised
    etl,        \* the ETL run: main's and process_file_streaming's locals, and history
    out,        \* the output directory: the file at the output path of the k-th input
    rh,         \* the lazy plan of build_lazy_pipeline run on two rows
    hdr,        \* a call of get_csv_headers: its arguments and what it returned
    ps          \* the loader runs as the pipeline_stats table sees them

loaderVars == <<target, temps, ld, returned, audit>>
resolverVars == <<raw, edits, rpc, important_mapping_result, validation, schema_result>>
etlVars == <<etl, out>>
notLoaderVars == <<resolverVars, etlVars, rh, hdr, ps>>
notResolverVars == <<loaderVars, etlVars, rh, hdr, ps>>
notEtlVars == <<loaderVars, resolverVars, rh, hdr, ps>>
notPlanVars == <<loaderVars, resolverVars, etlVars, hdr, ps>>
notHeaderVars == <<loaderVars, resolverVars, etlVars, rh, ps>>
notStatsVars == <<target, temps, ld, returned, resolverVars, etlVars, rh, hdr>>

\* ------------------------------------------------------------ loader: data
\* A table's rows are kept as a bag: ROW_HASH value -> number of rows with it.
\* 0 stands for a row that has no ROW_HASH value (the column is absent or NULL).
Workers == {1, 2}
SeqWorkers == {1}
Hashes == 1..MaxHash
HashVals == 0..MaxHash
EmptyRows == [h \in HashVals |-> 0]

RECURSIVE SumOver(_, _)
SumOver(b, S) ==
    IF S = {} THEN 0
    ELSE LET h == CHOOSE x \in S : TRUE IN b[h] + SumOver(b, S \ {h})

RowCount(b) == SumOver(b, HashVals)

RowBags == {b \in [HashVals -> 0..MaxRows] : RowCount(b) <= MaxRows}

\* A staged parquet file, in LOCAL_OUTPUT_DIR or as an object of the bucket:
\* with ENABLE_ROW_HASH every row carries a ROW_HASH, without it no row does.
\* A file of zero rows is a staged file too.
StagedFiles ==
    {[hasHash |-> TRUE, rows |-> b] : b \in {x \in RowBags : x[0] = 0}}
    \cup
    {[hasHash |-> FALSE, rows |-> b] :
        b \in {x \in RowBags : \A h \in Hashes : x[h] = 0}}

NoFile == [hasHash |-> FALSE, rows |-> EmptyRows]

None == <<>>
Some(n) == <<n>>

Missing == [exists |-> FALSE, hasHash |-> FALSE, fromLoader |-> FALSE,
            rows |-> EmptyRows]

\* The ROW_HASH values of a bag of rows.
HashesOf(b) == {h \in Hashes : b[h] > 0}

\* ROW_HASH values are interchangeable, so they are named in the order in
\* which they first appear: with 1..n in use, a bag of rows brings in none,
\* or n+1, or n+1 and n+2, and so on.
NamedAfter(n, b) ==
    IF HashesOf(b) \subseteq 1..n THEN n
    ELSE CHOOSE m \in HashesOf(b) : \A h \in HashesOf(b) : h <= m

InOrder(n, b) == (n + 1)..NamedAfter(n, b) \subseteq HashesOf(b)

\* The target before the run: not there yet, or left by earlier runs.
InitTargets ==
    {Missing}
    \cup
    {[exists |-> TRUE, hasHash |-> f.hasHash, fromLoader |-> FALSE,
      rows |-> f.rows] :
        f \in {x \in StagedFiles : RowCount(x.rows) <= 1 /\ InOrder(0, x.rows)}}

\* No exception caught.
NoError == [kind |-> "none", chars |-> 0]

IdleLoader ==
    [pc |-> "idle", remaining |-> 0, attempt |-> 0, cur |-> NoFile,
     temp_table_id |-> <<0, 0>>, loaded_rows |-> 0, rows_input |-> 0,
     rows_inserted |-> 0, rows_duplicates_skipped |-> 0,
     target_exists |-> FALSE, all_stats |-> <<>>, anyFailed |-> FALSE,
     prevFile |-> NoFile, prevOk |-> FALSE, rc |-> None,
     before |-> Missing, staged |-> 0, named |-> 0, found |-> 0,
     e |-> NoError]

\* ------------------------------------------------- loader: SQL statements
\* INSERT target SELECT * FROM temp (lines 164-168, 198-202).
InsertAllRows(t, s) == [h \in HashVals |-> t[h] + s[h]]

\* The statement of lines 177-185 with its WHERE clause lost: every staged row.
DedupSelectedUnfiltered(t, s) == s

\* The staged rows the statement of lines 177-185 selects: WHERE NOT EXISTS
\* (SELECT 1 FROM target T WHERE T.ROW_HASH = S.ROW_HASH), evaluated against
\* the target as it is before the insert. A NULL ROW_HASH equals nothing.
DedupSelected(t, s) ==
    [h \in HashVals |-> IF h = 0 \/ t[h] = 0 THEN s[h] ELSE 0]

\* The dedup insert run as the plain insert of lines 198-202.
InsertDedupRowsAsAppend(t, read, s) == InsertAllRows(t, s)

\* The statement of lines 177-185 run on target rows t, its subquery reading
\* the target rows `read`.
InsertDedupRows(t, read, s) == InsertAllRows(t, DedupSelected(read, s))

\* The subquery reading the target as it was when the load attempt began.
ReadsTargetOfAttemptStart(t, l) == l.before.rows

\* query_job.result(), line 187: the warehouse runs the DML statements on a
\* table one at a time, so the statement's subquery reads the target rows
\* as they are when the statement runs.
StatementReads(t, l) == t

\* create_table(table, exists_ok=True): a table that is there is no error.
ConflictIgnored(exists) == FALSE

\* bq_client.create_table(table), line 91: raises Conflict when the table is
\* there already.
Conflict(exists) == exists

\* The skipped count taken to be the inserted count.
DuplicatesSkippedAsInserted(loaded_rows, rows_inserted) == rows_inserted

\* rows_duplicates_skipped = loaded_rows - rows_inserted, line 192
DuplicatesSkipped(loaded_rows, rows_inserted) == loaded_rows - rows_inserted

\* -------------------------------------------------- loader: StageStats
\* The exception a failed attempt caught: what raised it and the length of
\* its text. "warehouse" is a call the warehouse did not carry out for
\* reasons of its own (outage, quota, permission); the other kinds are
\* raised for what the program asked.
ErrorKinds ==
    {"warehouse", "zero_rows", "no_columns", "already_exists",
     "no_clustering_field", "no_row_hash_in_target"}
ErrorChars == {ERROR_MESSAGE_CHARS, ERROR_MESSAGE_CHARS + 1}
Errors == [kind : ErrorKinds, chars : ErrorChars]

Min(a, b) == IF a <= b THEN a ELSE b

\* error_message=str(e) without the slice.
Uncut(e) == e

\* str(e)[:500], line 245
Cut(e) == [e EXCEPT !.chars = Min(@, ERROR_MESSAGE_CHARS)]

\* The filter reason set whatever the number of skipped rows.
FilterReasonAlways(rows_duplicates_skipped) == "duplicate_row_hash"

\* "duplicate_row_hash" if rows_duplicates_skipped > 0 else None, line 226
FilterReason(rows_duplicates_skipped) ==
    IF rows_duplicates_skipped > 0 THEN "duplicate_row_hash" ELSE "None"

SuccessStats(l) ==
    [stage_name |-> "upload", status |-> "success", rows_input |-> Some(l.rows_input),
     rows_output |-> Some(l.rows_inserted),
     rows_filtered |-> Some(l.rows_duplicates_skipped),
     rows_duplicates_skipped |-> Some(l.rows_duplicates_skipped),
     filter_reason |-> FilterReason(l.rows_duplicates_skipped),
     error_message |-> NoError]

FailedStats(l, e) ==
    [stage_name |-> "upload", status |-> "failed", rows_input |-> Some(l.rows_input),
     rows_output |-> None, rows_filtered |-> None,
     rows_duplicates_skipped |-> None, filter_reason |-> "None",
     error_message |-> Cut(e)]

\* What is kept of a load attempt that has returned: its temp table, the
\* staged file, the target when the attempt began and when it returned, the
\* kind of the exception caught ("none" if none) and the pair (success,
\* stats) returned.
Attempt(l, ok, e, stats, after) ==
    [temp |-> l.temp_table_id, file |-> l.cur, before |-> l.before,
     after |-> after, error |-> e.kind, ok |-> ok, stats |-> stats]

\* ------------------------------------------------- loader: one load attempt
\* The except branch of load_gcs_to_bigquery (lines 233-248) followed by
\* main's handling of (False, stats) (lines 319-324): the failed record is
\* appended and the loop goes on. `l` is the attempt's state when it raised.
\* `kind` is what raised; no step that raises changes the target.
AttemptFails(w, l, kind) ==
    \E e \in {x \in Errors : x.kind = kind} :
        LET stats == FailedStats(l, e)
        IN  /\ ld' = [ld EXCEPT ![w] =
                        [l EXCEPT !.pc = "loop",
                                  !.e = e,
                                  !.all_stats = Append(l.all_stats, stats),
                                  !.anyFailed = TRUE,
                                  !.prevFile = l.cur, !.prevOk = FALSE]]
            /\ returned' = returned \cup
                              {Attempt(l, FALSE, e, stats, target)}

\* The tail of the try block (lines 214-231) followed by main's handling of
\* (True, stats).
AttemptSucceeds(w, l) ==
    LET stats == SuccessStats(l)
    IN  /\ ld' = [ld EXCEPT ![w] =
                    [l EXCEPT !.pc = "loop",
                              !.all_stats = Append(l.all_stats, stats),
                              !.prevFile = l.cur, !.prevOk = TRUE]]
        /\ returned' = returned \cup
                          {Attempt(l, TRUE, NoError, stats, target)}

\* The record an ETL run saved for the transform of one file.
TransformStats ==
    [stage_name |-> "transform", status |-> "success",
     rows_input |-> Some(1), rows_output |-> Some(1),
     rows_filtered |-> Some(0), rows_duplicates_skipped |-> None,
     filter_reason |-> "None", error_message |-> NoError]

\* What _etl_stats.json holds when a loader run starts: nothing (no file),
\* or one saved transform record.
EtlStatsFiles == {<<>>, << TransformStats >>}

\* load_etl_stats, lines 251-260: the saved list, or [] when the file is
\* not there or cannot be read.
load_etl_stats(saved) == {saved, <<>>}

\* main, lines 268-301: the output directory is missing (return 1), holds no
\* parquet file (return 0), or holds n files; then all_stats starts with the
\* records read from _etl_stats.json.
MainStart(w) ==
    /\ ld[w].pc = "idle"
    /\ \/ /\ ld' = [ld EXCEPT ![w].pc = "done", ![w].rc = Some(1)]
       \/ /\ ld' = [ld EXCEPT ![w].pc = "done", ![w].rc = Some(0)]
       \/ /\ \E n \in 1..MaxFiles, saved \in EtlStatsFiles :
                \E etl_stats_data \in load_etl_stats(saved) :
                    ld' = [ld EXCEPT ![w].pc = "loop", ![w].remaining = n,
                                     ![w].found = n,
                                     ![w].all_stats = etl_stats_data]
    /\ UNCHANGED <<target, temps, returned, audit>>
    /\ UNCHANGED notLoaderVars

\* main, lines 303-310: the next parquet file of the loop. Its path is taken;
\* its rows are not read before the upload.
NextFile(w) ==
    /\ ld[w].pc = "loop"
    /\ ld[w].remaining > 0
    /\ ld' = [ld EXCEPT ![w].pc = "upload", ![w].cur = NoFile,
                        ![w].remaining = @ - 1]
    /\ UNCHANGED <<target, temps, returned, audit>>
    /\ UNCHANGED notLoaderVars

\* The rows of the objects the workers have had loaded so far, and the
\* ROW_HASH values named so far.
Handled == ld[1].staged + ld[2].staged
Named == IF ld[1].named >= ld[2].named THEN ld[1].named ELSE ld[2].named

\* The object at the file's path when upload_to_gcs returns the URI. With
\* `if blob.exists():` true (lines 59-63) it is the object that was there
\* already, which need not have the rows of the local file, and the local
\* file is not read; otherwise it is the local file as
\* upload_from_filename (line 70) read it.
Blobs ==
    {g \in StagedFiles :
        /\ RowCount(g.rows) <= MaxRows - Handled
        /\ InOrder(Named, g.rows)}

\* upload_to_gcs (lines 51-75) and main's `if gcs_uri:` (line 312). A failed
\* upload returns None and the file gets no load attempt. Otherwise the load
\* attempt starts on the object at the URI (lines 111-122); cur is that
\* object.
Upload(w) ==
    /\ ld[w].pc = "upload"
    /\ \/ ld' = [ld EXCEPT ![w].pc = "loop"]
       \/ \E blob \in Blobs :
             ld' = [ld EXCEPT ![w].pc = "stage",
                              ![w].cur = blob,
                              ![w].staged = @ + RowCount(blob.rows),
                              ![w].named = NamedAfter(Named, blob.rows),
                              ![w].attempt = @ + 1,
                              ![w].temp_table_id = <<w, ld[w].attempt + 1>>,
                              ![w].loaded_rows = 0,
                              ![w].rows_input = 0,
                              ![w].rows_inserted = 0,
                              ![w].rows_duplicates_skipped = 0,
                              ![w].target_exists = FALSE,
                              ![w].before = target,
                              ![w].e = NoError]
    /\ UNCHANGED <<target, temps, returned, audit>>
    /\ UNCHANGED notLoaderVars

\* `if loaded_rows == 0:` without its raise.
ZeroRowsPass(n) == FALSE

\* `if loaded_rows == 0: raise RuntimeError(...)`, lines 136-137
ZeroRowsRaise(n) == n = 0

\* Lines 125-138: the load job into the temp table. A job that raises creates
\* no table; a job that completes creates it, also when it loaded zero rows,
\* and zero loaded rows raise.
Stage(w) ==
    /\ ld[w].pc = "stage"
    /\ \/ /\ AttemptFails(w, ld[w], "warehouse")
          /\ UNCHANGED temps
       \/ LET n == RowCount(ld[w].cur.rows)
              l == [ld[w] EXCEPT !.loaded_rows = n, !.rows_input = n]
          IN  /\ temps' = temps \cup {ld[w].temp_table_id}
              /\ IF ZeroRowsRaise(n)
                 THEN AttemptFails(w, l, "zero_rows")
                 ELSE /\ ld' = [ld EXCEPT ![w] = [l EXCEPT !.pc = "discover"]]
                      /\ UNCHANGED returned
    /\ UNCHANGED <<target, audit>>
    /\ UNCHANGED notLoaderVars

\* Lines 141-148: get_table(temp) for the column list; a schema without
\* columns raises.
Discover(w) ==
    /\ ld[w].pc = "discover"
    /\ \/ AttemptFails(w, ld[w], "warehouse")
       \/ AttemptFails(w, ld[w], "no_columns")
       \/ /\ ld' = [ld EXCEPT ![w].pc = "check"]
          /\ UNCHANGED returned
    /\ UNCHANGED <<target, temps, audit>>
    /\ UNCHANGED notLoaderVars

\* Lines 150-156: get_table(target); any exception reads as "does not exist".
CheckTarget(w) ==
    /\ ld[w].pc = "check"
    /\ \E answered \in BOOLEAN :
          LET te == answered /\ target.exists
          IN  ld' = [ld EXCEPT ![w].target_exists = te,
                               ![w].pc = IF ~te THEN "create"
                                         ELSE IF ld[w].cur.hasHash THEN "dedup"
                                         ELSE "append"]
    /\ UNCHANGED <<target, temps, returned, audit>>
    /\ UNCHANGED notLoaderVars

\* Lines 158-161 and 78-93: create_partitioned_table with the temp table's
\* schema, partitioned on DATA_TIME and clustered on ROW_HASH. create_table
\* raises when the table is there already, and the warehouse rejects a
\* clustering field that is not a column of the schema.
CreateTarget(w) ==
    /\ ld[w].pc = "create"
    /\ \/ /\ AttemptFails(w, ld[w], "warehouse")
          /\ UNCHANGED target
       \/ /\ Conflict(target.exists)
          /\ AttemptFails(w, ld[w], "already_exists")
          /\ UNCHANGED target
       \/ /\ ~Conflict(target.exists)
          /\ ~ld[w].cur.hasHash
          /\ AttemptFails(w, ld[w], "no_clustering_field")
          /\ UNCHANGED target
       \/ /\ ~Conflict(target.exists)
          /\ ld[w].cur.hasHash
          /\ target' = IF target.exists THEN target
                        ELSE [exists |-> TRUE, hasHash |-> ld[w].cur.hasHash,
                              fromLoader |-> TRUE, rows |-> EmptyRows]
          /\ ld' = [ld EXCEPT ![w].pc = "insert"]
          /\ UNCHANGED returned
    /\ UNCHANGED <<temps, audit>>
    /\ UNCHANGED notLoaderVars

\* Lines 163-172: insert every staged row into the new table.
InsertNew(w) ==
    /\ ld[w].pc = "insert"
    /\ \/ /\ AttemptFails(w, ld[w], "warehouse")
          /\ UNCHANGED target
       \/ /\ target.exists
          /\ target' = [target EXCEPT
                          !.rows = InsertAllRows(@, ld[w].cur.rows)]
          /\ ld' = [ld EXCEPT ![w].pc = "cleanup",
                              ![w].rows_inserted = ld[w].loaded_rows]
          /\ UNCHANGED returned
    /\ UNCHANGED <<temps, audit>>
    /\ UNCHANGED notLoaderVars

\* Lines 175-193: INSERT ... WHERE NOT EXISTS on ROW_HASH. The statement
\* raises when the target has no ROW_HASH column to compare with.
InsertDedup(w) ==
    /\ ld[w].pc = "dedup"
    /\ \/ /\ AttemptFails(w, ld[w], "warehouse")
          /\ UNCHANGED target
       \/ /\ target.exists /\ ~target.hasHash
          /\ AttemptFails(w, ld[w], "no_row_hash_in_target")
          /\ UNCHANGED target
       \/ /\ target.exists /\ target.hasHash
          /\ LET read == StatementReads(target.rows, ld[w])
                 sel == DedupSelected(read, ld[w].cur.rows)
                 n == RowCount(sel)
             IN  /\ target' = [target EXCEPT
                                 !.rows = InsertDedupRows(@, read,
                                                          ld[w].cur.rows)]
                 /\ ld' = [ld EXCEPT
                             ![w].pc = "cleanup",
                             ![w].rows_inserted = n,
                             ![w].rows_duplicates_skipped =
                                 DuplicatesSkipped(ld[w].loaded_rows, n)]
          /\ UNCHANGED returned
    /\ UNCHANGED <<temps, audit>>
    /\ UNCHANGED notLoaderVars

\* Lines 194-208: no ROW_HASH column in the temp table, append everything.
InsertAppend(w) ==
    /\ ld[w].pc = "append"
    /\ \/ /\ AttemptFails(w, ld[w], "warehouse")
          /\ UNCHANGED target
       \/ /\ target.exists
          /\ target' = [target EXCEPT
                          !.rows = InsertAllRows(@, ld[w].cur.rows)]
          /\ ld' = [ld EXCEPT ![w].pc = "cleanup",
                              ![w].rows_inserted = ld[w].loaded_rows]
          /\ UNCHANGED returned
    /\ UNCHANGED <<temps, audit>>
    /\ UNCHANGED notLoaderVars

\* Lines 210-231: delete_table(temp, not_found_ok=True), reached only when
\* nothing raised before it, then the success record.
Cleanup(w) ==
    /\ ld[w].pc = "cleanup"
    /\ \/ /\ AttemptFails(w, ld[w], "warehouse")
          /\ UNCHANGED temps
       \/ /\ temps' = temps \ {ld[w].temp_table_id}
          /\ AttemptSucceeds(w, ld[w])
    /\ UNCHANGED <<target, audit>>
    /\ UNCHANGED notLoaderVars

\* main, lines 326-337: write the run's stats (a failure of the write is
\* logged only) and return 0.
MainEnd(w) ==
    /\ ld[w].pc = "loop"
    /\ ld[w].remaining = 0
    /\ \/ /\ ld[w].all_stats # <<>>
          /\ audit' = audit \o ld[w].all_stats
       \/ UNCHANGED audit
    /\ ld' = [ld EXCEPT ![w].pc = "done", ![w].rc = Some(0)]
    /\ UNCHANGED <<target, temps, returned>>
    /\ UNCHANGED notLoaderVars

LoaderStep(w) ==
    \/ MainStart(w)
    \/ NextFile(w)
    \/ Upload(w)
    \/ Stage(w)
    \/ Discover(w)
    \/ CheckTarget(w)
    \/ CreateTarget(w)
    \/ InsertNew(w)
    \/ InsertDedup(w)
    \/ InsertAppend(w)
    \/ Cleanup(w)
    \/ MainEnd(w)

\* load_gcs_to_bigquery called once, with the upload before it.
AttemptStep(w) ==
    \/ Upload(w)
    \/ Stage(w)
    \/ Discover(w)
    \/ CheckTarget(w)
    \/ CreateTarget(w)
    \/ InsertNew(w)
    \/ InsertDedup(w)
    \/ InsertAppend(w)
    \/ Cleanup(w)

\* Two workers, each about to upload and load one staged file.
AttemptsInit ==
    /\ target \in InitTargets
    /\ temps = {}
    /\ returned = {}
    /\ audit = <<>>
    /\ ld = [w \in Workers |->
                [IdleLoader EXCEPT
                    !.pc = "upload", !.found = 1,
                    !.named = NamedAfter(0, target.rows)]]

LoaderInit ==
    /\ target \in InitTargets
    /\ temps = {}
    /\ ld = [w \in Workers |->
                [IdleLoader EXCEPT !.named = NamedAfter(0, target.rows)]]
    /\ returned = {}
    /\ audit = <<>>

vars == <<target, temps, ld, returned, audit,
          raw, edits, rpc, important_mapping_result, validation, schema_result,
          etl, out, rh, hdr, ps>>

\* ======================================================= schema resolver
\* A column name is its letters case-folded (base), the way it is cased
\* (style: "U" all upper case, "l" all lower case, "M" mixed) and whether
\* whitespace surrounds it (pad). Two names are the same string exactly when
\* the three agree.
Name(b) == [base |-> b, style |-> "U", pad |-> FALSE]

\* str.upper()
Upper(n) == [n EXCEPT !.style = "U"]

\* str.strip()
Strip(n) == [n EXCEPT !.pad = FALSE]

\* The normalization without its strip().
NormalizeNoStrip(n) == Upper(n)

\* h.strip().upper(), lines 304, 308, 341, 349, 378, 379
Normalize(n) == Upper(Strip(n))

EXPECTED_HEADERS ==
    << Name("METER_ID"), Name("ID"), Name("METER_NO"), Name("DATA_TIME"),
       Name("IMPORT_ACTIVE_POWER"), Name("IMPORT_REACTIVE_POWER"),
       Name("IMPORT_APPARENT_POWER"), Name("REACTIVE_POWER_IMPORT"),
       Name("EXPORT_ACTIVE_POWER"), Name("EXPORT_REACTIVE_POWER"),
       Name("EXPORT_APPARENT_POWER"), Name("REACTIVE_POWER_EXPORT"),
       Name("IMPORT_FACTOR_POWER"), Name("EXPORT_FACTOR_POWER"),
       Name("STATUS") >>

IMPORTANT_COLUMNS ==
    << Name("METER_ID"), Name("DATA_TIME"), Name("IMPORT_ACTIVE_POWER") >>

\* column_variations.get(important_col, [important_col]), lines 331-338, 345
column_variations(c) ==
    IF c = Name("METER_ID") THEN
        << Name("METER_ID"), Name("METERID"), Name("METER"), Name("MTR_ID"),
           Name("ID_METER") >>
    ELSE IF c = Name("DATA_TIME") THEN
        << Name("DATA_TIME"), Name("DATATIME"), Name("DATETIME"),
           Name("DATE_TIME"), Name("READING_DATETIME"), Name("READ_TIME"),
           Name("TIMESTAMP"), Name("TIME"), Name("DT"), Name("READING_TIME"),
           Name("READ_DATETIME") >>
    ELSE IF c = Name("IMPORT_ACTIVE_POWER") THEN
        << Name("IMPORT_ACTIVE_POWER"), Name("IMPORTACTIVEPOWER"),
           Name("ACTIVE_IMPORT_POWER"), Name("ACTIVE_IMP_POWER"),
           Name("IMP_ACTIVE_POWER"), Name("IMPORT_POWER"),
           Name("ACTIVE_POWER"), Name("KW_IMPORT"), Name("KW_IMP"),
           Name("POWER_IMPORT") >>
    ELSE << c >>

Range(q) == {q[i] : i \in 1..Len(q)}

\* A dict is a function from its keys; the order of its items is kept only
\* where the code depends on it (the oracle's mapping, a sequence of pairs).
EmptyDict == [k \in {} |-> k]

\* d[k] = v
DictPut(d, k, v) ==
    [x \in (DOMAIN d) \cup {k} |-> IF x = k THEN v ELSE d[x]]

\* d.get(k, default)
DictGet(d, k, default) == IF k \in DOMAIN d THEN d[k] ELSE default

\* {h.strip().upper(): h for h in headers}, lines 304 and 341: of two headers
\* with the same normalized name the later one stays.
RECURSIVE header_lookup(_)
header_lookup(headers) ==
    IF headers = <<>> THEN EmptyDict
    ELSE LET n == Len(headers)
         IN  DictPut(header_lookup(SubSeq(headers, 1, n - 1)),
                     Normalize(headers[n]), headers[n])

\* [h.strip().upper() for h in headers], lines 378-379
NormalizeAll(headers) == [i \in 1..Len(headers) |-> Normalize(headers[i])]

\* The inner loop of lines 348-356 taken from the end of the table: the last
\* variation present in the lookup wins (0: none is present).
RECURSIVE LastVariation(_, _, _)
LastVariation(variations, lookup, i) ==
    IF i > Len(variations) THEN 0
    ELSE LET later == LastVariation(variations, lookup, i + 1)
         IN  IF later # 0 THEN later
             ELSE IF Normalize(variations[i]) \in DOMAIN lookup THEN i
             ELSE 0

\* The inner loop of lines 348-356: the index of the first variation, from
\* position i on, whose normalized name is in the lookup (0: none, `matched`
\* stays False).
RECURSIVE FirstVariation(_, _, _)
FirstVariation(variations, lookup, i) ==
    IF i > Len(variations) THEN 0
    ELSE IF Normalize(variations[i]) \in DOMAIN lookup THEN i
    ELSE FirstVariation(variations, lookup, i + 1)

\* The result of try_deterministic_important_mapping: None, or a dict.
NoMapping == [is_none |-> TRUE, dict |-> EmptyDict]
SomeMapping(d) == [is_none |-> FALSE, dict |-> d]

\* The outer loop of lines 344-360 from the k-th important column on, with
\* the mapping built so far; NoMapping is the `return None` of line 360.
RECURSIVE DeterministicLoop(_, _, _, _)
DeterministicLoop(important_columns, lookup, k, mapping) ==
    IF k > Len(important_columns) THEN SomeMapping(mapping)
    ELSE LET important_col == important_columns[k]
             variations == column_variations(important_col)
             i == FirstVariation(variations, lookup, 1)
         IN  IF i = 0 THEN NoMapping
             ELSE LET actual_header == lookup[Normalize(variations[i])]
                  IN  DeterministicLoop(
                          important_columns, lookup, k + 1,
                          IF actual_header # important_col
                          THEN DictPut(mapping, actual_header, important_col)
                          ELSE mapping)

\* try_deterministic_important_mapping, lines 325-363
try_deterministic_important_mapping(current_headers, important_columns) ==
    DeterministicLoop(important_columns, header_lookup(current_headers), 1,
                      EmptyDict)

\* The oracle's column name taken as it came.
ActualColumnAsGiven(incoming_col, lookup) == incoming_col

\* actual_col = header_lookup[normalized_incoming], line 316
ActualColumn(incoming_col, lookup) == lookup[Normalize(incoming_col)]

\* validate_and_fix_mapping, lines 294-322, over the items of the oracle's
\* mapping in their order (a sequence of <<incoming, target>> pairs).
RECURSIVE validate_and_fix_mapping(_, _)
validate_and_fix_mapping(items, actual_headers) ==
    IF items = <<>> THEN EmptyDict
    ELSE LET n == Len(items)
             validated == validate_and_fix_mapping(SubSeq(items, 1, n - 1),
                                                   actual_headers)
             incoming_col == items[n][1]
             target_col == items[n][2]
             lookup == header_lookup(actual_headers)
         IN  IF incoming_col \in Range(actual_headers)
             THEN DictPut(validated, incoming_col, target_col)
             ELSE IF Normalize(incoming_col) \in DOMAIN lookup
             THEN DictPut(validated, ActualColumn(incoming_col, lookup),
                          target_col)
             ELSE validated

\* set(mapping.values())
DictValues(d) == {d[k] : k \in DOMAIN d}

Returned(mapping, important_only, calls) ==
    [outcome |-> "return", mapping |-> mapping,
     important_only |-> important_only, calls |-> calls]

Raised(calls) ==
    [outcome |-> "raise", mapping |-> EmptyDict, important_only |-> FALSE,
     calls |-> calls]

Undecided == [outcome |-> "undecided", mapping |-> EmptyDict,
              important_only |-> FALSE, calls |-> {}]

\* determine_schema_mapping up to its first oracle call, lines 378-399.
ResolveWithoutOracle(current_headers, expected_headers) ==
    IF NormalizeAll(current_headers) = NormalizeAll(expected_headers)
    THEN Returned(EmptyDict, FALSE, {})
    ELSE LET deterministic_mapping ==
                 try_deterministic_important_mapping(current_headers,
                                                     IMPORTANT_COLUMNS)
         IN  IF ~deterministic_mapping.is_none
             THEN Returned(deterministic_mapping.dict, TRUE, {})
             ELSE Undecided

\* Lines 401-435, given the answer of map_important_columns_with_gemini.
ResolveImportantOracle(current_headers, answer) ==
    LET important_mapping ==
            validate_and_fix_mapping(answer.mapping, current_headers)
        mapped_important_cols == DictValues(important_mapping)
        required_important_cols == Range(IMPORTANT_COLUMNS)
    IN  IF \/ answer.status = "SUCCESS"
           \/ mapped_important_cols = required_important_cols
        THEN Returned(important_mapping, TRUE, {"important"})
        ELSE IF /\ Cardinality(mapped_important_cols) >=
                       Cardinality(required_important_cols)
                /\ required_important_cols \subseteq mapped_important_cols
        THEN Returned(important_mapping, TRUE, {"important"})
        ELSE Undecided

\* Lines 437-468, given the answer of validate_schema_with_gemini.
ResolveFullOracle(current_headers, expected_headers, answer) ==
    LET calls == {"important", "full"} IN
    IF answer.status = "ABORT" THEN Raised(calls)
    ELSE LET mapping ==
                 validate_and_fix_mapping(
                     IF answer.status = "RENAME" THEN answer.mapping
                     ELSE <<>>,
                     current_headers)
             final_headers ==
                 [i \in 1..Len(current_headers) |->
                     DictGet(mapping, current_headers[i], current_headers[i])]
         IN  IF Len(final_headers) # Cardinality(Range(final_headers))
             THEN Raised(calls)
             ELSE IF Range(expected_headers) \ Range(final_headers) # {}
             THEN Raised(calls)
             ELSE Returned(mapping, FALSE, calls)

\* ------------------------------------------- schema resolver: the inputs
\* The header lists the resolver is run on are reached from a few lists by at
\* most MaxEdits edits: a column recased, padded, renamed to another known
\* variation of the same important column, renamed to an unknown name,
\* dropped, or a column appended. get_csv_headers strips the names it reads,
\* so a padded name reaches determine_schema_mapping only from a caller that
\* passes the list itself; lines 378 and 304 strip it again.
Lower(n) == [n EXCEPT !.style = "l"]
Mixed(n) == [n EXCEPT !.style = "M"]
Padded(n) == [n EXCEPT !.pad = TRUE]

ExampleHeaders ==
    << Name("MTR_ID"), Name("READING_DATETIME"), Name("ACTIVE_IMP_POWER") >>

LowerAll(headers) == [i \in 1..Len(headers) |-> Lower(headers[i])]

\* The canonical list with its device-id column under a name no table knows.
UnknownIdHeaders == [EXPECTED_HEADERS EXCEPT ![1] = Name("FOO")]

SeedHeaders ==
    {EXPECTED_HEADERS, LowerAll(EXPECTED_HEADERS), UnknownIdHeaders,
     IMPORTANT_COLUMNS, ExampleHeaders, LowerAll(ExampleHeaders), <<>>}

AllVariations ==
    UNION {Range(column_variations(IMPORTANT_COLUMNS[k])) :
              k \in 1..Len(IMPORTANT_COLUMNS)}

\* The names a column is appended under: the first three variations of an
\* important column, its canonical name in lower case, a canonical column
\* that is not important, and a name no table knows.
AppendVocabulary ==
    UNION {Range(SubSeq(column_variations(IMPORTANT_COLUMNS[k]), 1, 3))
              \cup {Lower(IMPORTANT_COLUMNS[k])} :
           k \in 1..Len(IMPORTANT_COLUMNS)}
        \cup {Name("STATUS"), Name("FOO")}

\* The variations of the important column that n is a variation of.
SiblingVariations(n) ==
    UNION {Range(column_variations(IMPORTANT_COLUMNS[k])) :
              k \in {j \in 1..Len(IMPORTANT_COLUMNS) :
                        Normalize(n) \in
                            Range(column_variations(IMPORTANT_COLUMNS[j]))}}

\* The positions the edits touch: every column that is a variation of an
\* important column, and the first of the other columns, which the resolver
\* does not tell apart.
EditPositions(headers) ==
    LET known == {i \in 1..Len(headers) :
                     Normalize(headers[i]) \in AllVariations}
        others == (1..Len(headers)) \ known
    IN  known \cup {i \in others : \A j \in others : i <= j}

ReplaceAt(q, i, n) == [q EXCEPT ![i] = n]
RemoveAt(q, i) == SubSeq(q, 1, i - 1) \o SubSeq(q, i + 1, Len(q))

\* The answers an oracle may give for a header list: any status, and a
\* mapping of one of the shapes below. The incoming names are columns
\* of the list that are important or not canonical, as written or recased,
\* or a name that is not in the list at all. The target names are free
\* strings: an important column, another canonical column, or a name that
\* is not canonical.
OracleKeys(headers) ==
    LET named == {h \in Range(headers) :
                     \/ h \in Range(IMPORTANT_COLUMNS)
                     \/ h \notin Range(EXPECTED_HEADERS)}
    IN  named \cup {Lower(h) : h \in named \ Range(EXPECTED_HEADERS)}
              \cup {Name("GHOST")}

OracleTargets ==
    Range(IMPORTANT_COLUMNS) \cup {Name("STATUS"), Name("BAR")}

OracleItems(headers, targets) ==
    {<<k, t>> : k \in OracleKeys(headers), t \in targets}

\* Two items that name one column of the list, as written and recased, and
\* send it to two important columns.
RepeatedMappings(headers) ==
    {<< <<h, t1>>, <<Lower(h), t2>> >> :
        h \in {n \in Range(headers) : n \notin Range(EXPECTED_HEADERS)
                                      /\ Lower(n) # n},
        t1 \in Range(IMPORTANT_COLUMNS),
        t2 \in Range(IMPORTANT_COLUMNS)}

\* Two items that name the first two columns of the list that are important
\* or not canonical, and send the first to an important column and the
\* second to any target.
PairMappings(headers, targets) ==
    LET named == {i \in 1..Len(headers) :
                     \/ headers[i] \in Range(IMPORTANT_COLUMNS)
                     \/ headers[i] \notin Range(EXPECTED_HEADERS)}
        leading == {i \in named : Cardinality({j \in named : j < i}) < 2}
    IN  {<< <<headers[p[1]], t1>>, <<headers[p[2]], t2>> >> :
            p \in {q \in leading \X leading :
                      q[1] < q[2] /\ headers[q[1]] # headers[q[2]]},
            t1 \in Range(IMPORTANT_COLUMNS), t2 \in targets}

\* No item, one item, one column named twice, or two columns named.
OracleMappings(headers, targets) ==
    {<<>>} \cup {<< item >> : item \in OracleItems(headers, targets)}
           \cup RepeatedMappings(headers)
           \cup PairMappings(headers, targets)

\* An answer that maps the leading columns of the list, in order, onto the
\* important columns, and the one after them onto STATUS.
CoveringTargets == IMPORTANT_COLUMNS \o << Name("STATUS") >>

CoveringMappings(headers) ==
    {[i \in 1..n |-> << headers[i], CoveringTargets[i] >>] :
        n \in {m \in 3..4 :
                  /\ m <= Len(headers)
                  /\ Cardinality(Range(SubSeq(headers, 1, m))) = m}}

\* What map_important_columns_with_gemini may return (lines 265-275, 287-291):
\* a status and the items that have an incoming and a target name.
ImportantAnswers(headers) ==
    {[status |-> st, mapping |-> m] :
        st \in {"SUCCESS", "PARTIAL", "FAILED"},
        m \in OracleMappings(headers, OracleTargets)
               \cup CoveringMappings(headers)}

\* What validate_schema_with_gemini may return (lines 172-174, 186-190).
FullAnswers(headers) ==
    {[status |-> st, mapping |-> m] :
        st \in {"MATCH", "RENAME", "ABORT"},
        m \in OracleMappings(headers, OracleTargets)}

\* determine_schema_mapping, lines 366-468: what it may return or raise for
\* a header list, over the answers the oracles may give when it asks them.
determine_schema_mapping(current_headers, expected_headers) ==
    LET first == ResolveWithoutOracle(current_headers, expected_headers)
        second == {ResolveImportantOracle(current_headers, a) :
                      a \in ImportantAnswers(current_headers)}
        third == {ResolveFullOracle(current_headers, expected_headers, a) :
                     a \in FullAnswers(current_headers)}
    IN  IF first.outcome # "undecided" THEN {first}
        ELSE (second \ {Undecided})
             \cup (IF Undecided \in second THEN third ELSE {})

NoAnswer == [status |-> "none", mapping |-> <<>>]

ResolverIdle ==
    /\ raw = <<>>
    /\ edits = 0
    /\ rpc = "off"
    /\ important_mapping_result = NoAnswer
    /\ validation = NoAnswer
    /\ schema_result = Undecided

ResolverInit ==
    /\ raw \in SeedHeaders
    /\ edits = 0
    /\ rpc = "input"
    /\ important_mapping_result = NoAnswer
    /\ validation = NoAnswer
    /\ schema_result = Undecided

EditTo(new) ==
    /\ rpc = "input"
    /\ edits < MaxEdits
    /\ raw' = new
    /\ edits' = edits + 1
    /\ UNCHANGED <<rpc, important_mapping_result, validation, schema_result>>
    /\ UNCHANGED notResolverVars

\* The positions an edit may touch now: none once the resolver runs or
\* MaxEdits edits are made.
Editable ==
    IF rpc = "input" /\ edits < MaxEdits THEN EditPositions(raw) ELSE {}

Recase(i) == \E n \in {Lower(raw[i]), Mixed(raw[i])} : EditTo(ReplaceAt(raw, i, n))

Pad(i) == EditTo(ReplaceAt(raw, i, Padded(raw[i])))

UseVariation(i) ==
    \E n \in SiblingVariations(raw[i]) : EditTo(ReplaceAt(raw, i, n))

Garble(i) == EditTo(ReplaceAt(raw, i, Name("FOO")))

DropColumn(i) == EditTo(RemoveAt(raw, i))

AppendColumn == \E n \in AppendVocabulary : EditTo(Append(raw, n))

\* determine_schema_mapping(raw, EXPECTED_HEADERS) is called and runs up to
\* its return or its first oracle call.
ResolveStart ==
    /\ rpc = "input"
    /\ LET r == ResolveWithoutOracle(raw, EXPECTED_HEADERS)
       IN  /\ schema_result' = r
           /\ rpc' = IF r.outcome = "undecided" THEN "ask_important"
                     ELSE "resolved"
    /\ UNCHANGED <<raw, edits, important_mapping_result, validation>>
    /\ UNCHANGED notResolverVars

\* map_important_columns_with_gemini answers (line 402) and the code runs up
\* to its return or the next oracle call, after which the answer is read no
\* more.
ImportantOracleAnswers ==
    /\ rpc = "ask_important"
    /\ \E a \in ImportantAnswers(raw) :
          LET r == ResolveImportantOracle(raw, a)
          IN  /\ important_mapping_result' =
                     IF r.outcome = "undecided" THEN NoAnswer ELSE a
              /\ schema_result' = r
              /\ rpc' = IF r.outcome = "undecided" THEN "ask_full"
                        ELSE "resolved"
    /\ UNCHANGED <<raw, edits, validation>>
    /\ UNCHANGED notResolverVars

\* validate_schema_with_gemini answers (line 439) and the code runs to its
\* return or raise.
FullOracleAnswers ==
    /\ rpc = "ask_full"
    /\ \E a \in FullAnswers(raw) :
          /\ validation' = a
          /\ schema_result' = ResolveFullOracle(raw, EXPECTED_HEADERS, a)
          /\ rpc' = "resolved"
    /\ UNCHANGED <<raw, edits, important_mapping_result>>
    /\ UNCHANGED notResolverVars

ResolverStep ==
    \/ \E i \in Editable : Recase(i)
    \/ \E i \in Editable : Pad(i)
    \/ \E i \in Editable : UseVariation(i)
    \/ \E i \in Editable : Garble(i)
    \/ \E i \in Editable : DropColumn(i)
    \/ AppendColumn
    \/ ResolveStart
    \/ ImportantOracleAnswers
    \/ FullOracleAnswers

\* ======================================================== get_csv_headers
\* A header line is a sequence of characters: a letter, the space, the quote
\* character and the separators comma, semicolon, tab and pipe.
Quote == "\""
Tab == "\t"
Chars == {"a", " ", Quote, ",", ";", Tab, "|"}

\* The characters str.strip() removes.
Whitespace == {" ", Tab}

Lines == UNION {[1..n -> Chars] : n \in 0..MaxLine}

\* str.strip(): leading and trailing whitespace removed.
RECURSIVE LStrip(_)
LStrip(t) ==
    IF t # <<>> /\ Head(t) \in Whitespace THEN LStrip(Tail(t)) ELSE t

RECURSIVE RStrip(_)
RStrip(t) ==
    IF t # <<>> /\ t[Len(t)] \in Whitespace
    THEN RStrip(SubSeq(t, 1, Len(t) - 1))
    ELSE t

StrStrip(t) == RStrip(LStrip(t))

\* h.replace('"', ""), line 129
RemoveQuotes(t) == SelectSeq(t, LAMBDA c : c # Quote)

\* str.count(c), lines 91-94
Count(t, c) == Len(SelectSeq(t, LAMBDA x : x = c))

\* str.split(separator), line 129: the fields between the separators, the
\* empty ones included; the split of the empty string is one empty field.
RECURSIVE Split(_, _, _)
Split(t, separator, field) ==
    IF t = <<>> THEN << field >>
    ELSE IF Head(t) = separator
         THEN << field >> \o Split(Tail(t), separator, <<>>)
         ELSE Split(Tail(t), separator, Append(field, Head(t)))

\* A file: whether it can be opened and decoded, and its first line.
HeaderFiles ==
    {[readable |-> TRUE, line |-> t] : t \in Lines}
    \cup {[readable |-> FALSE, line |-> <<>>]}

\* The candidates of lines 91-96 in the order of the dict.
CandidateSeparators == << ",", ";", Tab, "|" >>

\* max(separators, key=separators.get), line 100: the first candidate, in
\* the order of the dict, that no candidate occurs more often than.
MostFrequent(header_line) ==
    LET n == [i \in 1..Len(CandidateSeparators) |->
                 Count(header_line, CandidateSeparators[i])]
        first == CHOOSE i \in 1..Len(CandidateSeparators) :
                     /\ \A j \in 1..Len(CandidateSeparators) : n[j] <= n[i]
                     /\ \A j \in 1..(i - 1) : n[j] < n[i]
    IN  CandidateSeparators[first]

\* detect_csv_separator, lines 80-111: the most frequent of the candidates
\* in the first line; the comma when none occurs or when the file cannot be
\* read.
detect_csv_separator(file) ==
    IF ~file.readable THEN ","
    ELSE LET header_line == StrStrip(file.line)
             detected == MostFrequent(header_line)
         IN  IF Count(header_line, detected) > 0 THEN detected ELSE ","

\* `if h.strip()` of line 129
KeepField(h) == StrStrip(h) # <<>>

\* get_csv_headers, lines 114-133. `separator` is None or the caller's.
get_csv_headers(file, separator) ==
    IF ~file.readable THEN [headers |-> <<>>, separator |-> ","]
    ELSE LET sep == IF separator = None THEN detect_csv_separator(file)
                    ELSE separator[1]
             header_line == StrStrip(file.line)
             fields == SelectSeq(Split(header_line, sep, <<>>), KeepField)
         IN  [headers |-> [i \in 1..Len(fields) |->
                              StrStrip(RemoveQuotes(fields[i]))],
              separator |-> sep]

IdleHeaders ==
    [pc |-> "off", file |-> [readable |-> FALSE, line |-> <<>>],
     separator |-> None, returned |-> [headers |-> <<>>, separator |-> ","]]

HeadersIdle == hdr = IdleHeaders

HeadersInit ==
    \E f \in HeaderFiles,
       sep \in {None} \cup {Some(c) : c \in Range(CandidateSeparators)} :
        hdr = [IdleHeaders EXCEPT !.pc = "call", !.file = f,
                                  !.separator = sep]

HeadersStep ==
    /\ hdr.pc = "call"
    /\ hdr' = [hdr EXCEPT !.pc = "returned",
                          !.returned = get_csv_headers(hdr.file,
                                                       hdr.separator)]
    /\ UNCHANGED notHeaderVars

\* ============================================================ the ETL run
\* The columns the lazy plan of build_lazy_pipeline reads (lines 562-646).
PipelineColumns(important_only, row_hash) ==
    {Name("DATA_TIME"), Name("IMPORT_ACTIVE_POWER")}
    \cup (IF important_only THEN Range(IMPORTANT_COLUMNS)
          ELSE {Name("EXPORT_ACTIVE_POWER"), Name("IMPORT_REACTIVE_POWER"),
                Name("EXPORT_REACTIVE_POWER")})
    \cup (IF row_hash THEN {Name("METER_ID")} ELSE {})

\* [mapping.get(h, h) for h in headers]: line 453, and q.rename of line 557.
RenamedHeaders(headers, mapping) ==
    [i \in 1..Len(headers) |-> DictGet(mapping, headers[i], headers[i])]

\* The plan can be executed: the rename gives no column twice and every
\* column the plan reads is there.
PipelineRuns(headers, mapping, important_only, row_hash) ==
    LET final == RenamedHeaders(headers, mapping)
    IN  /\ Cardinality(Range(final)) = Len(final)
        /\ PipelineColumns(important_only, row_hash) \subseteq Range(final)

\* The header lists of the CSV files of an ETL run, as get_csv_headers
\* returns them.
EtlHeaderLists ==
    {EXPECTED_HEADERS, UnknownIdHeaders, ExampleHeaders, << Name("FOO") >>}

\* What determine_schema_mapping may return or raise for each of them.
EtlSchemaOutcomes ==
    [hs \in EtlHeaderLists |-> determine_schema_mapping(hs, EXPECTED_HEADERS)]

Absent == [state |-> "absent", rows |-> 0]
Written(n) == [state |-> "valid", rows |-> n]
Corrupt == [state |-> "corrupt", rows |-> 0]

\* Lines 674-681: the output path of an input file is its quarter folder and
\* its base name with every ".csv" replaced by ".parquet", so that two input
\* files of one quarter can have one output path (a.parquet.csv and a.csv.csv
\* both give a.parquet.parquet). A file's path is named by the first file of
\* the run that has it.
OutputPaths ==
    {p \in [1..MaxFiles -> 1..MaxFiles] :
        \A k \in 1..MaxFiles : p[k] <= k /\ p[p[k]] = p[k]}

IdleEtl ==
    [pc |-> "idle", remaining |-> 0, k |-> 0, row_hash |-> FALSE,
     output_path |-> [k \in 1..MaxFiles |-> k],
     current_headers |-> <<>>, rows |-> 0,
     mapping |-> EmptyDict, important_only |-> FALSE,
     sunk |-> None, row_count |-> None, success |-> FALSE,
     error |-> "none", separator |-> ",", unreadable |-> {},
     read |-> {}, skipped |-> {}, resolved |-> {}, transformed |-> {},
     schema_failed |-> 0, transform_failed |-> 0, rc |-> None]

EtlIdle ==
    /\ etl = IdleEtl
    /\ out = [k \in 1..MaxFiles |-> Absent]

\* The input files' output paths, and the output directory before the run:
\* empty, or holding outputs of an earlier run. out[k] is the file at the
\* output path of input file k.
EtlInit ==
    /\ \E p \in OutputPaths : etl = [IdleEtl EXCEPT !.output_path = p]
    /\ out \in [1..MaxFiles -> {Absent, Written(1)}]
    /\ \A k \in 1..MaxFiles : out[k] = out[etl.output_path[k]]

\* The output directory with `file` at the output path of input file k,
\* which may be the output path of other input files as well.
AtOutputPath(k, file) ==
    [j \in 1..MaxFiles |->
        IF etl.output_path[j] = etl.output_path[k] THEN file ELSE out[j]]

\* main's lines 761-763 returning 1 instead of going on with the next file.
MissingHeadersAbortRun(e) == [e EXCEPT !.pc = "done", !.rc = Some(1)]

\* main, lines 761-763: `if not current_headers:` logs and continues with
\* the next file.
MissingHeaders(e) == [e EXCEPT !.pc = "loop"]

\* A file that cannot be opened or decoded.
UnreadableFile == [readable |-> FALSE, line |-> <<>>]

\* A file whose first line holds separators only.
NoHeaderFile == [readable |-> TRUE, line |-> << ";", ";" >>]

\* The data rows of an input file: none, one, or as many as a file holds.
EtlRowCounts == {0, 1, MaxRows}

\* The separators detect_csv_separator finds in the files of a run.
Separators == Range(CandidateSeparators)

\* main's `except` of lines 768-771 skipping the file instead of returning.
SchemaErrorSkipsFile(e) == [e EXCEPT !.pc = "loop"]

\* main, lines 768-771: schema resolution raised, the run returns 1.
SchemaError(e) == [e EXCEPT !.pc = "done", !.rc = Some(1)]

\* main's lines 783-785 skipping the file instead of returning.
TransformFailureSkipsFile(e) == [e EXCEPT !.pc = "loop"]

\* main, lines 783-785: process_file_streaming returned False, the run
\* returns 1.
TransformFailure(e) == [e EXCEPT !.pc = "done", !.rc = Some(1)]

\* The zero-row guard raising the error of line 704.
ZeroRowErrorAsNotCreated == "not_created"

\* The RuntimeError of lines 713-717, "CRITICAL: Zero rows written to ...".
ZeroRowError == "zero_rows"

\* The RuntimeError of line 704, "Parquet file was not created at ...".
NotCreatedError == "not_created"

\* process_file_streaming, lines 727-729: whatever was raised is logged and
\* the caller gets False.
StreamingFailure(error) == FALSE

\* An exception of the file system or of the parquet reader: os.makedirs
\* (line 678), sink_parquet (694), scan_parquet and collect (707-708),
\* os.remove (712).
IoError == "io"

\* Lines 710-717: os.remove(output_path) removes the file and the zero-row
\* error is raised; or os.remove raises, the file stays where it is and the
\* error raised is os.remove's.
ZeroRowGuard(file) ==
    {[file |-> Absent, error |-> ZeroRowError],
     [file |-> file, error |-> IoError]}

\* main, lines 738-745: os.makedirs of the input or of the output directory
\* raises (the path is a dangling link, or a part of it is a regular file).
\* The call is in no try block: main ends with the exception and returns
\* nothing.
MainRaises(e) == [e EXCEPT !.pc = "raised"]

\* main, lines 736-753: a directory cannot be made (main raises), or there
\* is no input directory or no CSV file (return 0), or there are n files.
\* ENABLE_ROW_HASH is read from the environment (line 29).
EtlStart ==
    /\ etl.pc = "idle"
    /\ \/ etl' = MainRaises(etl)
       \/ etl' = [etl EXCEPT !.pc = "done", !.rc = Some(0)]
       \/ \E n \in 1..MaxFiles, h \in BOOLEAN :
             etl' = [etl EXCEPT !.pc = "loop", !.remaining = n,
                                !.row_hash = h]
    /\ UNCHANGED out
    /\ UNCHANGED notEtlVars

\* main, lines 755-763: get_csv_headers(input_file) gives the next file's
\* headers and its separator; a file that gives no header, because it cannot
\* be read or because its first line names no column, is skipped. The header
\* lists of the other files are kept as lists of column names. main's
\* mapping, important_only and success keep the values of the file before
\* until they are assigned again.
EtlReadHeaders ==
    /\ etl.pc = "loop"
    /\ etl.remaining > 0
    /\ LET e == [etl EXCEPT !.remaining = @ - 1, !.k = @ + 1,
                            !.read = @ \cup {etl.k + 1},
                            !.sunk = None, !.row_count = None,
                            !.error = "none", !.rows = 0]
       IN  \/ \E file \in {UnreadableFile, NoHeaderFile} :
                 LET r == get_csv_headers(file, None)
                 IN  /\ r.headers = <<>>
                     /\ etl' = MissingHeaders(
                                   [e EXCEPT !.current_headers = r.headers,
                                             !.separator = r.separator,
                                             !.unreadable =
                                                 IF file.readable THEN @
                                                 ELSE @ \cup {etl.k + 1},
                                             !.skipped = @ \cup {etl.k + 1}])
           \/ \E hs \in EtlHeaderLists, separator \in Separators,
                 n \in EtlRowCounts :
                 etl' = [e EXCEPT !.current_headers = hs, !.rows = n,
                                  !.separator = separator,
                                  !.pc = "schema"]
    /\ UNCHANGED out
    /\ UNCHANGED notEtlVars

\* main, lines 765-779: determine_schema_mapping, with whatever the oracles
\* answer when they are asked.
EtlResolveSchema ==
    /\ etl.pc = "schema"
    /\ \E schema \in EtlSchemaOutcomes[etl.current_headers] :
          LET e == [etl EXCEPT !.resolved = @ \cup {etl.k}]
          IN  IF schema.outcome = "raise"
              THEN etl' = SchemaError([e EXCEPT !.schema_failed = etl.k])
              ELSE etl' = [e EXCEPT !.mapping = schema.mapping,
                                    !.important_only = schema.important_only,
                                    !.pc = "sink"]
    /\ UNCHANGED out
    /\ UNCHANGED notEtlVars

\* The transform returns False to main (lines 727-729, 782-785).
StreamingFails(e, error) ==
    TransformFailure([e EXCEPT !.success = StreamingFailure(error),
                               !.error = error,
                               !.transform_failed = e.k])

\* process_file_streaming, lines 672-700: the output directory is made, the
\* plan is built and sunk to the output path. get_file_quarter or
\* os.makedirs raises (lines 674-678), whatever the plan; or the plan does
\* not resolve and sink_parquet raises before writing; or the sink raises
\* part way through the file; or it completes, and then the file holds the
\* input's rows or, against all expectation, is not there.
EtlSink ==
    /\ etl.pc = "sink"
    /\ LET e == [etl EXCEPT !.transformed = @ \cup {etl.k}]
           runs == PipelineRuns(etl.current_headers, etl.mapping,
                                etl.important_only, etl.row_hash)
       IN  \/ /\ etl' = StreamingFails(e, IoError)
              /\ UNCHANGED out
           \/ /\ ~runs
              /\ etl' = StreamingFails(e, "columns")
              /\ UNCHANGED out
           \/ /\ runs
              /\ etl' = StreamingFails(e, IoError)
              /\ out' = AtOutputPath(etl.k, Corrupt)
           \/ /\ runs
              /\ etl' = [e EXCEPT !.pc = "validate",
                                  !.sunk = Some(etl.rows)]
              /\ out' = AtOutputPath(etl.k, Written(etl.rows))
           \/ /\ runs
              /\ etl' = [e EXCEPT !.pc = "validate",
                                  !.sunk = Some(etl.rows)]
              /\ out' = AtOutputPath(etl.k, Absent)
    /\ UNCHANGED notEtlVars

\* process_file_streaming, lines 702-729: the post-write validation, and
\* main's lines 782-785. The file is not there (line 704); or reading its
\* row count raises (lines 707-708) and the file stays as written; or the
\* count is read, and a count of zero goes to the zero-row guard. Whatever
\* is raised reaches the except of lines 727-729.
EtlValidate ==
    /\ etl.pc = "validate"
    /\ IF out[etl.k].state = "absent"
       THEN /\ etl' = StreamingFails(etl, NotCreatedError)
            /\ UNCHANGED out
       ELSE \/ /\ etl' = StreamingFails(etl, IoError)
               /\ UNCHANGED out
            \/ LET e == [etl EXCEPT !.row_count = Some(out[etl.k].rows)]
               IN  IF out[etl.k].rows = 0
                   THEN \E g \in ZeroRowGuard(out[etl.k]) :
                           /\ out' = AtOutputPath(etl.k, g.file)
                           /\ etl' = StreamingFails(e, g.error)
                   ELSE /\ etl' = [e EXCEPT !.success = TRUE,
                                            !.pc = "loop"]
                        /\ UNCHANGED out
    /\ UNCHANGED notEtlVars

\* main, lines 787-788.
EtlEnd ==
    /\ etl.pc = "loop"
    /\ etl.remaining = 0
    /\ etl' = [etl EXCEPT !.pc = "done", !.rc = Some(0)]
    /\ UNCHANGED out
    /\ UNCHANGED notEtlVars

EtlStep ==
    \/ EtlStart
    \/ EtlReadHeaders
    \/ EtlResolveSchema
    \/ EtlSink
    \/ EtlValidate
    \/ EtlEnd

\* =================================================== the row-hash pipeline
\* build_lazy_pipeline's plan (lines 541-646) followed on two rows, which are
\* rows of one CSV file or of two. A METER_ID text is a run of `zeros` leading
\* zeros and a body; a DATA_TIME text is written in one of four forms:
\*   "full"  2025-08-02 00:MM:SS
\*   "frac"  2025-08-02 00:MM:SS.4600000
\*   "date"  2025-08-02
\*   "bad"   anything none of the three formats parses
IdText(z, b) == [zeros |-> z, body |-> b]

IdTexts == {IdText(0, "7"), IdText(1, "7"), IdText(0, "8"), IdText(0, "A")}

Seconds == {0, 30}

TimeTexts ==
    {[form |-> "full", minute |-> m, sec |-> x] :
        m \in 0..MaxMinute, x \in Seconds}
    \cup {[form |-> "frac", minute |-> m, sec |-> 30] : m \in 0..MaxMinute}
    \cup {[form |-> "date", minute |-> 0, sec |-> 0],
          [form |-> "bad", minute |-> 0, sec |-> 0]}

\* IMPORT_ACTIVE_POWER as written (two numbers and a text that is none). The
\* plan reads every column by its name (lines 555-561), so a row is its
\* cells by column name, whatever the position of the columns in the file.
PowerTexts == {"1.5", "2.50", "n/a"}

InputRows ==
    [METER_ID : IdTexts, DATA_TIME : TimeTexts,
     IMPORT_ACTIVE_POWER : PowerTexts]

\* The first row of a pair: its power is fixed, the second row's varies
\* against it.
FirstRows == {r \in InputRows : r.IMPORT_ACTIVE_POWER = "1.5"}

\* scan_csv, lines 543-551: the dtype of a file's column is inferred from a
\* prefix of the file: Int64 when every sampled value is an integer literal,
\* Float64 when every sampled value is a number and one has a decimal point,
\* Utf8 otherwise.
MeterIdDtypes == {"Int64", "Float64", "Utf8"}

\* DATA_TIME is typed as a number in a file whose sampled DATA_TIME cells
\* are numbers (20250802, an epoch), whatever the cells below the sample
\* hold; IMPORT_ACTIVE_POWER is typed Int64 when the sampled cells are
\* integers.
DataTimeDtypes == {"Utf8", "Int64"}
PowerDtypes == {"Utf8", "Float64", "Int64"}

\* Under Int64 a METER_ID reads as the integer (its leading zeros are gone),
\* under Float64 as the float and, ignore_errors being set, a value that is
\* no number reads as null. `.cast(pl.Utf8)` (line 638) then writes the
\* integer without leading zeros and the float with its decimal point.
IsIntegerLiteral(id) == id.body \in {"7", "8"}

FloatText(body) == IF body = "7" THEN "7.0" ELSE "8.0"

ReadMeterId(dtype, id) ==
    IF dtype = "Utf8" THEN Some(id)
    ELSE IF ~IsIntegerLiteral(id) THEN None
    ELSE IF dtype = "Int64" THEN Some(IdText(0, id.body))
    ELSE Some(IdText(0, FloatText(id.body)))

\* str.strptime(pl.Datetime, format, strict=False), lines 568-579: null when
\* the text does not match the format.
Strptime(text, format) ==
    IF format = "%Y-%m-%d %H:%M:%S" /\ text.form = "full"
    THEN Some([minute |-> text.minute, sec |-> text.sec])
    ELSE IF format = "%Y-%m-%d" /\ text.form = "date"
    THEN Some([minute |-> 0, sec |-> 0])
    ELSE None

\* str.replace(r"\.\d+$", ""), line 568
StripFraction(text) ==
    IF text.form = "frac" THEN [text EXCEPT !.form = "full"] ELSE text

\* pl.coalesce, line 566: the first value that is not null.
RECURSIVE Coalesce(_)
Coalesce(values) ==
    IF values = <<>> THEN None
    ELSE IF Head(values) # None THEN Head(values)
    ELSE Coalesce(Tail(values))

\* .dt.truncate("1m"), line 580
TruncateToMinute(t) == IF t = None THEN None ELSE Some([t[1] EXCEPT !.sec = 0])

\* Step 3, lines 563-582
ParseDataTime(text) ==
    TruncateToMinute(Coalesce(<<
        Strptime(StripFraction(text), "%Y-%m-%d %H:%M:%S"),
        Strptime(text, "%Y-%m-%d %H:%M:%S"),
        Strptime(text, "%Y-%m-%d") >>))

\* .dt.strftime("%Y-%m-%d %H:%M:%S"), lines 586-588: the text has a fixed
\* width; null stays null.
Strftime(t) == t

\* pl.concat_str, lines 636-641: null when a part is null. The second part
\* has a fixed width, so the concatenation is kept as the pair of its parts.
ConcatStr(id, time_str) ==
    IF id = None \/ time_str = None THEN None
    ELSE Some(<<id[1], time_str[1]>>)

IdCode(id) ==
    IF id = IdText(0, "7") THEN 0
    ELSE IF id = IdText(1, "7") THEN 1
    ELSE IF id = IdText(0, "8") THEN 2
    ELSE IF id = IdText(0, "A") THEN 3
    ELSE IF id = IdText(0, "7.0") THEN 4
    ELSE 5

\* The strings that get hashed, numbered; null is number 0.
KeyIndex(key) ==
    IF key = None THEN 0
    ELSE 1 + IdCode(key[1][1]) * (MaxMinute + 1) + key[1][2].minute

Pow2(n) == 2 ^ n

\* The largest number of a string.
MaxKeyIndex == 1 + 5 * (MaxMinute + 1) + MaxMinute

\* Expr.hash(), line 642: an unsigned HashBits-bit value for every string and
\* for null. The hash is taken as collision-free: it depends on a seed, and
\* for every seed different strings get different values.
StringHash(key, seed) == (KeyIndex(key) + seed) % Pow2(HashBits)

\* Two seeds: between them every unsigned value is the hash of a string.
Seeds == {0, Pow2(HashBits) - 1 - MaxKeyIndex}

\* The modulus with the sign bit left in: 2^HashBits - 1.
ModulusFullWidth == Pow2(HashBits) - 1

\* 2**63 - 1 of line 643, for a hash of HashBits bits.
Modulus == Pow2(HashBits - 1) - 1

\* .cast(pl.Int64), line 645: the cast is strict; a value that the signed
\* integer of the hash's width cannot hold makes it raise (none).
CastSigned(u) == IF u >= Pow2(HashBits - 1) THEN None ELSE Some(u)

\* scan_csv with ignore_errors (lines 543-551): an IMPORT_ACTIVE_POWER cell
\* as the column's dtype reads it. None of the texts is an integer, so in a
\* column typed Int64 each of them reads as null; in a column typed Float64
\* the text that is no number reads as null.
IsNumber(text) == text \in {"1.5", "2.50"}

ReadPower(dtype, text) ==
    IF dtype = "Utf8" THEN Some(text)
    ELSE IF dtype = "Float64" /\ IsNumber(text) THEN Some(text)
    ELSE None

\* .cast(pl.Utf8).str.strip_chars().cast(pl.Float64, strict=False), line
\* 619: the number in tenths, null for null and for a text that is no
\* number.
CastFloat(cell) ==
    IF cell = Some("1.5") THEN Some(15)
    ELSE IF cell = Some("2.50") THEN Some(25)
    ELSE None

\* LazyFrame.with_columns (lines 564, 605, 622, 635): the column is added or
\* replaced; the frame keeps its rows, whatever the column's values.
WithColumns(frame, column) == frame

\* frame holds the rows of the files whose plan has not raised; error tells,
\* row by row, what the plan of the row's file raised.
IdlePlan ==
    [pc |-> "off", rows |-> <<>>, same_file |-> FALSE, row_hash |-> FALSE,
     dtype |-> <<>>, time_dtype |-> <<>>, frame |-> {}, error |-> <<>>,
     METER_ID |-> <<>>,
     DATA_TIME |-> <<>>, DATA_TIME_STR |-> <<>>,
     IMPORT_ACTIVE_POWER |-> <<>>, hash |-> <<>>, ROW_HASH |-> <<>>]

\* The rows in the files of the rows in S: a plan that raises writes no row
\* of its file.
FileOf(S) == IF rh.same_file /\ S # {} THEN {1, 2} ELSE S

\* The step after a with_columns: the plan is at its end when every file's
\* plan has raised.
After(frame, pc) == IF frame = {} THEN "failed" ELSE pc

PlanIdle == rh = IdlePlan

\* Two rows, of one file or of two.
PlanInit ==
    \E r1 \in FirstRows, r2 \in InputRows, same \in BOOLEAN :
        /\ rh = [IdlePlan EXCEPT !.pc = "scan", !.rows = <<r1, r2>>,
                                 !.same_file = same]

\* Lines 543-561: the file of each row is scanned, renamed and projected;
\* the rows of one file have the file's dtypes.
PlanScan ==
    /\ rh.pc = "scan"
    /\ \E d1, d2 \in MeterIdDtypes,
          t1, t2 \in DataTimeDtypes :
          /\ rh.same_file => (d1 = d2 /\ t1 = t2)
          /\ rh' = [rh EXCEPT
                !.pc = "parse",
                !.dtype = <<d1, d2>>,
                !.time_dtype = <<t1, t2>>,
                !.frame = {1, 2},
                !.error = <<"none", "none">>,
                !.METER_ID = <<ReadMeterId(d1, rh.rows[1].METER_ID),
                               ReadMeterId(d2, rh.rows[2].METER_ID)>>]
    /\ UNCHANGED notPlanVars

\* Lines 563-582. The `.str` expressions need a Utf8 column: in a file whose
\* DATA_TIME column scan_csv typed as a number (every sampled value is one)
\* the plan raises when it runs, and no row of the file is written.
PlanParseTime ==
    /\ rh.pc = "parse"
    /\ LET raised == {i \in 1..2 : rh.time_dtype[i] # "Utf8"}
           kept == rh.frame \ FileOf(raised)
           column == [i \in 1..2 |->
                         IF i \in kept
                         THEN ParseDataTime(rh.rows[i].DATA_TIME)
                         ELSE None]
       IN  rh' = [rh EXCEPT
               !.pc = After(kept, "derive"),
               !.error = [i \in 1..2 |->
                             IF i \in raised THEN "schema" ELSE @[i]],
               !.DATA_TIME = column,
               !.frame = WithColumns(kept, column)]
    /\ UNCHANGED notPlanVars

\* Lines 584-605
PlanDerive ==
    /\ rh.pc = "derive"
    /\ LET column == [i \in 1..2 |->
                         IF i \in rh.frame THEN Strftime(rh.DATA_TIME[i])
                         ELSE None]
       IN  rh' = [rh EXCEPT !.pc = "cast",
                            !.DATA_TIME_STR = column,
                            !.frame = WithColumns(@, column)]
    /\ UNCHANGED notPlanVars

\* Lines 607-622, on the power column as scan_csv typed it in each file.
PlanCast ==
    /\ rh.pc = "cast"
    /\ \E p1, p2 \in PowerDtypes :
          /\ rh.same_file => p1 = p2
          /\ LET p == <<p1, p2>>
                 column == [i \in 1..2 |->
                    IF i \in rh.frame
                    THEN CastFloat(ReadPower(p[i],
                                             rh.rows[i].IMPORT_ACTIVE_POWER))
                    ELSE None]
             IN  rh' = [rh EXCEPT !.pc = "hash",
                                  !.IMPORT_ACTIVE_POWER = column,
                                  !.frame = WithColumns(@, column)]
    /\ UNCHANGED notPlanVars

\* Lines 631-646 with ENABLE_ROW_HASH (line 29) set. A cast that raises ends the plan
\* of the row's file, which then writes no row.
PlanHash ==
    /\ rh.pc = "hash"
    /\ \E seed \in Seeds :
          LET h == [i \in 1..2 |->
                       StringHash(ConcatStr(rh.METER_ID[i],
                                            rh.DATA_TIME_STR[i]),
                                  seed)]
              cast == [i \in 1..2 |-> CastSigned(h[i] % Modulus)]
              raised == {i \in rh.frame : cast[i] = None}
              kept == rh.frame \ FileOf(raised)
          IN  rh' = [rh EXCEPT
                  !.pc = After(kept, "done"),
                  !.row_hash = TRUE,
                  !.hash = h,
                  !.error = [i \in 1..2 |->
                                IF i \in raised THEN "cast" ELSE @[i]],
                  !.ROW_HASH = [i \in 1..2 |->
                                   IF i \in kept THEN cast[i] ELSE None],
                  !.frame = WithColumns(kept, h)]
    /\ UNCHANGED notPlanVars

\* Line 631 with ENABLE_ROW_HASH unset: the plan has no ROW_HASH column.
PlanNoHash ==
    /\ rh.pc = "hash"
    /\ rh' = [rh EXCEPT !.pc = "done", !.row_hash = FALSE]
    /\ UNCHANGED notPlanVars

PlanStep ==
    \/ PlanScan
    \/ PlanParseTime
    \/ PlanDerive
    \/ PlanCast
    \/ PlanHash
    \/ PlanNoHash

\* ================================================ the pipeline_stats table
\* cloud_loader.main as the stats table sees it: which run id it runs under,
\* which records it gathers and what it writes. `audit` is the table.
\* get_run_id (pipeline_stats.py, line 196) reads AIRFLOW_RUN_ID: the
\* scheduler gives a retried task the run id of the first try.
RunIds == {"run_1", "run_2"}

\* The parquet files of the output directory, <quarter folder>/<name>.parquet.
ParquetFiles ==
    {[quarter |-> "Q1", name |-> "a"], [quarter |-> "Q2", name |-> "a"],
     [quarter |-> "Q1", name |-> "b"]}

\* os.path.basename(local_file).replace(".parquet", ".csv"), line 308
SourceFilename(local_file) == local_file.name

\* The key the table is read by.
StatsKey(s) == <<s.run_id, s.source_filename, s.stage_name>>

\* A StageStats record of a load attempt, lines 217-229 and 237-247.
UploadStats(run_id, local_file, status) ==
    [run_id |-> run_id, source_filename |-> SourceFilename(local_file),
     stage_name |-> "upload", status |-> status]

\* What _etl_stats.json holds when a loader run reads it: nothing (no file),
\* or the record an ETL run saved for its transform of a.csv.
SavedEtlStats ==
    {<<>>}
    \cup
    {<<[run_id |-> r, source_filename |-> "a", stage_name |-> "transform",
        status |-> "success"]>> : r \in RunIds}

IdleStats ==
    [pc |-> "off", runs |-> 0, saved |-> <<>>, run_id |-> "none",
     parquet_files |-> {}, all_stats |-> <<>>]

StatsIdle == ps = IdleStats

StatsInit ==
    \E saved \in SavedEtlStats :
        ps = [IdleStats EXCEPT !.pc = "idle", !.saved = saved]

\* main, lines 268-301: the run id, the parquet files found and the saved
\* transform-stage records, which start the run's all_stats.
StatsMainStart ==
    /\ ps.pc = "idle"
    /\ ps.runs < MaxRuns
    /\ \E run_id \in RunIds, found \in SUBSET ParquetFiles,
          etl_stats_data \in load_etl_stats(ps.saved) :
          ps' = [ps EXCEPT !.runs = @ + 1,
                           !.run_id = run_id,
                           !.pc = IF found = {} THEN "idle" ELSE "loop",
                           !.parquet_files = found,
                           !.all_stats = IF found = {} THEN <<>>
                                         ELSE etl_stats_data]
    /\ UNCHANGED audit
    /\ UNCHANGED notStatsVars

\* main, lines 303-324: one file of the loop. A failed upload leaves no
\* record; a load attempt returns one, success or failed.
StatsLoadFile ==
    /\ ps.pc = "loop"
    /\ \E local_file \in ps.parquet_files :
          \/ ps' = [ps EXCEPT !.parquet_files = @ \ {local_file}]
          \/ \E status \in {"success", "failed"} :
                ps' = [ps EXCEPT
                         !.parquet_files = @ \ {local_file},
                         !.all_stats =
                             Append(@, UploadStats(ps.run_id, local_file,
                                                   status))]
    /\ UNCHANGED audit
    /\ UNCHANGED notStatsVars

\* insert_stats_batch (pipeline_stats.py, lines 159-189): insert_rows_json
\* appends the rows of the list to the table, or fails and appends none.
insert_stats_batch(table, stats_list) == {table \o stats_list, table}

\* main, lines 326-337: the run's records are written, if there are any.
StatsMainEnd ==
    /\ ps.pc = "loop"
    /\ ps.parquet_files = {}
    /\ IF ps.all_stats # <<>>
       THEN audit' \in insert_stats_batch(audit, ps.all_stats)
       ELSE UNCHANGED audit
    /\ ps' = [ps EXCEPT !.pc = "idle", !.all_stats = <<>>]
    /\ UNCHANGED notStatsVars

\* insert_stats (pipeline_stats.py, lines 129-156): insert_rows_json appends
\* the one record to the table, or fails and appends none.
insert_stats(table, stats) == {Append(table, stats), table}

\* A caller of insert_stats between two loader runs, with the record of one
\* load attempt.
StatsInsertOne ==
    /\ ps.pc = "idle"
    /\ ps.runs < MaxRuns
    /\ \E run_id \in RunIds, local_file \in ParquetFiles,
          status \in {"success", "failed"} :
          audit' \in insert_stats(audit,
                                  UploadStats(run_id, local_file, status))
    /\ ps' = [ps EXCEPT !.runs = @ + 1]
    /\ UNCHANGED notStatsVars

StatsStep ==
    \/ StatsMainStart
    \/ StatsLoadFile
    \/ StatsMainEnd
    \/ StatsInsertOne

\* ========================================================= specifications
\* A loader run (cloud_loader.main) against the warehouse.
InitLoader ==
    LoaderInit /\ ResolverIdle /\ EtlIdle /\ PlanIdle /\ HeadersIdle
    /\ StatsIdle

NextLoader == \E w \in SeqWorkers : LoaderStep(w)

SpecLoader == InitLoader /\ [][NextLoader]_vars

\* determine_schema_mapping run on the raw header lists.
LoaderOff ==
    /\ target = Missing
    /\ temps = {}
    /\ ld = [w \in Workers |-> IdleLoader]
    /\ returned = {}
    /\ audit = <<>>

InitResolver ==
    ResolverInit /\ LoaderOff /\ EtlIdle /\ PlanIdle /\ HeadersIdle
    /\ StatsIdle

NextResolver == ResolverStep

SpecResolver == InitResolver /\ [][NextResolver]_vars

\* An ETL run (etl_processor.main) over the input directory.
InitEtl ==
    EtlInit /\ LoaderOff /\ ResolverIdle /\ PlanIdle /\ HeadersIdle
    /\ StatsIdle

NextEtl == EtlStep

SpecEtl == InitEtl /\ [][NextEtl]_vars

\* build_lazy_pipeline's plan run on pairs of rows.
InitPlan ==
    PlanInit /\ LoaderOff /\ ResolverIdle /\ EtlIdle /\ HeadersIdle
    /\ StatsIdle

NextPlan == PlanStep

SpecPlan == InitPlan /\ [][NextPlan]_vars

\* get_csv_headers called on every file and separator argument.
InitHeaders ==
    HeadersInit /\ LoaderOff /\ ResolverIdle /\ EtlIdle /\ PlanIdle
    /\ StatsIdle

NextHeaders == HeadersStep

SpecHeaders == InitHeaders /\ [][NextHeaders]_vars

\* Two load attempts (load_gcs_to_bigquery) at the same time on one target.
InitAttempts ==
    /\ AttemptsInit
    /\ ResolverIdle /\ EtlIdle /\ PlanIdle /\ HeadersIdle /\ StatsIdle

NextAttempts == \E w \in Workers : AttemptStep(w)

SpecAttempts == InitAttempts /\ [][NextAttempts]_vars

\* Loader runs, one after the other, writing to the pipeline_stats table.
LoaderIdle ==
    /\ target = Missing
    /\ temps = {}
    /\ ld = [w \in Workers |-> IdleLoader]
    /\ returned = {}

InitStats ==
    /\ StatsInit /\ audit = <<>>
    /\ LoaderIdle /\ ResolverIdle /\ EtlIdle /\ PlanIdle /\ HeadersIdle

NextStats == StatsStep

SpecStats == InitStats /\ [][NextStats]_vars

\* ===================================================== claims: the loader
\* The step by which worker w's insert statement completes.
InsertCompletes(w) ==
    /\ ld[w].pc \in {"insert", "dedup", "append"}
    /\ ld'[w].pc = "cleanup"

\* The attempt in progress loads the staged file of the attempt before it,
\* which ended in SUCCESS.
SecondLoadOfSameFile(w) ==
    /\ ld[w].prevOk
    /\ ld[w].prevFile = ld[w].cur

\* C1 (as claimed): once a load attempt has returned, SUCCESS or FAILED, its
\* temporary table no longer exists.
C1_TempTableGoneAfterReturn ==
    \A a \in returned : a.temp \notin temps

\* C2 (as claimed): for any staged file, with or without ROW_HASH, a second
\* load of the file right after a successful one inserts zero rows, reports
\* every staged row as a skipped duplicate and leaves the target's row count
\* as it was.
C2_IdempotentLoadAnyFile ==
    [][\A w \in SeqWorkers :
          (InsertCompletes(w) /\ SecondLoadOfSameFile(w)) =>
             /\ RowCount(target'.rows) = RowCount(target.rows)
             /\ ld'[w].rows_inserted = 0
             /\ ld'[w].rows_duplicates_skipped = ld[w].loaded_rows]_vars

\* C2 (amended): for a staged file that carries ROW_HASH, a second load of
\* the file right after a successful one, when its insert completes, inserts
\* zero rows, reports every staged row as a skipped duplicate and leaves the
\* target as it was.
C2_IdempotentLoadWithRowHash ==
    [][\A w \in SeqWorkers :
          (InsertCompletes(w) /\ SecondLoadOfSameFile(w) /\ ld[w].cur.hasHash) =>
             /\ target' = target
             /\ ld'[w].rows_inserted = 0
             /\ ld'[w].rows_duplicates_skipped = ld[w].loaded_rows]_vars

\* A second load of a ROW_HASH file has run its insert and skipped every row.
C2_Witness ==
    \E w \in SeqWorkers :
        /\ ld[w].pc = "cleanup"
        /\ SecondLoadOfSameFile(w)
        /\ ld[w].cur.hasHash
        /\ ld[w].loaded_rows >= 1
        /\ ld[w].rows_duplicates_skipped = ld[w].loaded_rows

\* C3 (as claimed): a loader run in which the load of some file failed
\* returns a non-zero code.
C3_FailedLoadGivesNonZeroReturn ==
    \A w \in SeqWorkers :
        (ld[w].pc = "done" /\ ld[w].anyFailed) => ld[w].rc # Some(0)

\* C4 (as claimed): a target created by the loader holds at most one row per
\* ROW_HASH value.
C4_AtMostOneRowPerHash ==
    target.fromLoader => \A h \in Hashes : target.rows[h] <= 1

\* C4 (amended): all target rows that share a ROW_HASH come from one load
\* attempt: once the target holds a row with a ROW_HASH value, no later step
\* adds another row with that value.
C4_NoRowAddedForPresentHash ==
    [][\A h \in Hashes :
          (target.exists /\ target.rows[h] > 0) =>
              target'.rows[h] = target.rows[h]]_vars

\* A load into a target the loader created has skipped the staged rows
\* whose ROW_HASH the target held.
C4_Witness ==
    \E w \in SeqWorkers :
        /\ target.fromLoader
        /\ ld[w].pc = "cleanup"
        /\ ld[w].rows_duplicates_skipped > 0
        /\ \E h \in Hashes : target.rows[h] > 0 /\ ld[w].cur.rows[h] > 0

\* ==================================================== claims: the ETL run
\* process_file_streaming has returned for the run's current file.
TransformReturned ==
    /\ etl.k \in etl.transformed
    /\ etl.pc \in {"loop", "done"}

NonZero(rc) == rc # None /\ rc # Some(0)

\* C5: when schema resolution of a file raises, the transform is never
\* invoked for that file, no later file is read, resolved or transformed, and
\* the run has returned a non-zero code.
C5_SchemaFatalAbortsRun ==
    etl.schema_failed # 0 =>
        /\ etl.pc = "done"
        /\ NonZero(etl.rc)
        /\ etl.schema_failed \notin etl.transformed
        /\ \A j \in etl.read \cup etl.resolved \cup etl.transformed :
              j <= etl.schema_failed

\* The schema of the first file raised while the run had files left.
C5_Witness ==
    /\ etl.schema_failed = 1
    /\ etl.remaining > 0
    /\ etl.pc = "done"

\* C6: the first file whose transform fails ends the run with a non-zero
\* code and no later file is processed; a run that returns 0 had no schema
\* resolution and no transform fail.
C6_TransformFailureAbortsRun ==
    /\ etl.transform_failed # 0 =>
          /\ etl.pc = "done"
          /\ NonZero(etl.rc)
          /\ \A j \in etl.read \cup etl.resolved \cup etl.transformed :
                j <= etl.transform_failed
    /\ (etl.pc = "done" /\ etl.rc = Some(0)) =>
          (etl.schema_failed = 0 /\ etl.transform_failed = 0)

\* The transform of the first file failed while the run had files left.
C6_Witness ==
    /\ etl.transform_failed = 1
    /\ etl.remaining > 0
    /\ etl.pc = "done"

\* C7 (as claimed): when the transform has written an output file of zero
\* rows it reports failure and the output path holds no file once it has
\* returned; a transform that reports success leaves an output file of at
\* least one row.
C7_ZeroRowGuard ==
    TransformReturned =>
        /\ etl.sunk = Some(0) =>
              (~etl.success /\ out[etl.k].state = "absent")
        /\ etl.success =>
              (out[etl.k].state = "valid" /\ out[etl.k].rows >= 1)

\* C8 (as claimed): the outcome the transform returns for a zero-row output
\* differs from the outcome it returns for an ordinary I/O failure.
C8_ZeroRowOutcomeDistinct ==
    (TransformReturned /\ etl.row_count = Some(0)) =>
        /\ etl.success # StreamingFailure("io")
        /\ etl.success # StreamingFailure(NotCreatedError)

\* C8 (amended): every failure of the transform, the zero-row output
\* included, returns the same outcome False; what tells the zero-row output
\* apart is the error raised and logged inside the transform, which is the
\* zero-row error exactly when the validation read a row count of zero and
\* the zero-row file has been removed.
C8_SameOutcomeDistinctError ==
    (TransformReturned /\ etl.transform_failed = etl.k) =>
        /\ etl.success = FALSE
        /\ (etl.error = "zero_rows") <=>
              (etl.row_count = Some(0) /\ out[etl.k].state = "absent")

\* The transform has returned from a zero-row output.
C8_Witness ==
    /\ TransformReturned
    /\ etl.transform_failed = etl.k
    /\ etl.row_count = Some(0)
    /\ etl.error = "zero_rows"
    /\ out[etl.k].state = "absent"

\* ============================================ claims: the schema resolver
\* The two header lists are the same after trimming and case-folding: same
\* length, and the same letters at every position.
CaseFoldEqual(a, b) ==
    /\ Len(a) = Len(b)
    /\ \A i \in 1..Len(a) : a[i].base = b[i].base

PresentBases(headers) == {headers[i].base : i \in 1..Len(headers)}

\* The positions in c's alias table of the aliases the header list contains,
\* case-insensitively.
PresentAliases(c, headers) ==
    {i \in 1..Len(column_variations(c)) :
        column_variations(c)[i].base \in PresentBases(headers)}

\* The first alias of c, in table order, that the header list contains.
FirstAliasBase(c, headers) ==
    LET I == PresentAliases(c, headers)
    IN  column_variations(c)[CHOOSE i \in I : \A j \in I : i <= j].base

\* C9: for a raw header list equal to the canonical list after trimming and
\* case-folding, determine_schema_mapping returns an empty mapping with
\* important_only false and calls no oracle.
C9_ExactMatch ==
    (rpc # "input" /\ CaseFoldEqual(raw, EXPECTED_HEADERS)) =>
        /\ rpc = "resolved"
        /\ schema_result.outcome = "return"
        /\ schema_result.mapping = EmptyDict
        /\ schema_result.important_only = FALSE
        /\ schema_result.calls = {}

\* A list that differs from the canonical one in case or padding was resolved.
C9_Witness ==
    /\ rpc = "resolved"
    /\ CaseFoldEqual(raw, EXPECTED_HEADERS)
    /\ raw # EXPECTED_HEADERS

C10_Precondition ==
    /\ rpc # "input"
    /\ ~CaseFoldEqual(raw, EXPECTED_HEADERS)
    /\ \A c \in Range(IMPORTANT_COLUMNS) : PresentAliases(c, raw) # {}

\* C10: for a raw header list that is no exact match and contains an alias
\* of every important column, determine_schema_mapping returns
\* important_only true without calling an oracle, and the mapping renames,
\* for each important column, one raw column whose name is the first alias in
\* table order that is present (no entry when that column already has the
\* canonical name), and nothing else.
C10_DeterministicMapping ==
    C10_Precondition =>
        /\ rpc = "resolved"
        /\ schema_result.outcome = "return"
        /\ schema_result.important_only = TRUE
        /\ schema_result.calls = {}
        /\ LET m == schema_result.mapping
           IN  /\ \A k \in DOMAIN m :
                     /\ k \in Range(raw)
                     /\ m[k] \in Range(IMPORTANT_COLUMNS)
                     /\ k.base = FirstAliasBase(m[k], raw)
               /\ \A c \in Range(IMPORTANT_COLUMNS) :
                     LET from == {k \in DOMAIN m : m[k] = c}
                     IN  \/ Cardinality(from) = 1
                         \/ /\ from = {}
                            /\ c \in Range(raw)
                            /\ FirstAliasBase(c, raw) = c.base

\* A list with two aliases of one important column was resolved to a
\* mapping that renames columns.
C10_Witness ==
    /\ C10_Precondition
    /\ rpc = "resolved"
    /\ \E c \in Range(IMPORTANT_COLUMNS) :
          Cardinality(PresentAliases(c, raw)) >= 2
    /\ schema_result.mapping # EmptyDict

\* ================================== claims: the schema resolver, continued
HasRepeatedName(q) == Len(q) # Cardinality(Range(q))

\* C11 (as claimed): for a raw header list without a repeated name, whenever
\* renaming the raw headers by the resolved mapping gives two columns the
\* same name, determine_schema_mapping has raised instead of returning the
\* mapping, on whichever path the mapping was resolved.
C11_DuplicateNamesAlwaysFatal ==
    (/\ rpc = "resolved"
     /\ ~HasRepeatedName(raw)
     /\ HasRepeatedName(RenamedHeaders(raw, schema_result.mapping))) =>
        schema_result.outcome = "raise"

\* The columns the ColumnMapping invariant asks for.
RequiredColumns(important_only) ==
    IF important_only THEN Range(IMPORTANT_COLUMNS)
    ELSE Range(EXPECTED_HEADERS)

\* C12 (as claimed): every result determine_schema_mapping returns for a
\* non-empty raw header list satisfies the ColumnMapping invariant: the raw
\* headers renamed by the mapping contain (letter case and padding aside)
\* every important column when important_only is true and every canonical
\* column when it is false.
C12_ReturnedMappingCoversColumns ==
    (rpc = "resolved" /\ raw # <<>> /\ schema_result.outcome = "return") =>
        RequiredColumns(schema_result.important_only) \subseteq
            {Normalize(h) :
                h \in Range(RenamedHeaders(raw, schema_result.mapping))}

\* The answer of the oracle that the returned result was made from.
OracleAnswer ==
    IF "full" \in schema_result.calls THEN validation
    ELSE important_mapping_result

\* determine_schema_mapping has returned a mapping made from an oracle's
\* answer.
ReturnedFromOracle ==
    /\ rpc = "resolved"
    /\ schema_result.outcome = "return"
    /\ schema_result.calls # {}

\* C25 (as claimed): whatever the oracle answers, the returned mapping
\* renames no raw column whose name is a canonical column name.
C25_CanonicalColumnNeverRenamed ==
    ReturnedFromOracle =>
        \A i \in 1..Len(raw) :
            raw[i] \in Range(EXPECTED_HEADERS) =>
                DictGet(schema_result.mapping, raw[i], raw[i]) = raw[i]

\* C26: whatever the oracle answers, every key of the returned mapping is
\* one of the raw headers: an item whose name is a raw header keeps it, an
\* item whose name differs from a raw header in letter case or padding only
\* is keyed by that header, and an item whose name matches no header gives
\* no key.
C26_MappingKeysAreRawHeaders ==
    ReturnedFromOracle =>
        /\ DOMAIN schema_result.mapping \subseteq Range(raw)
        /\ \A i \in 1..Len(OracleAnswer.mapping) :
              LET name == OracleAnswer.mapping[i][1]
                  like == {h \in Range(raw) : Normalize(h) = Normalize(name)}
              IN  /\ name \in Range(raw) =>
                        name \in DOMAIN schema_result.mapping
                  /\ (name \notin Range(raw) /\ like # {}) =>
                        /\ name \notin DOMAIN schema_result.mapping
                        /\ like \cap DOMAIN schema_result.mapping # {}
        /\ Cardinality(DOMAIN schema_result.mapping) <=
              Len(OracleAnswer.mapping)

\* The oracle named a column in another letter case than the file's, and the
\* returned mapping is keyed by the file's header.
C26_Witness ==
    /\ ReturnedFromOracle
    /\ \E i \in 1..Len(OracleAnswer.mapping) :
          LET name == OracleAnswer.mapping[i][1]
          IN  /\ name \notin Range(raw)
              /\ \E h \in DOMAIN schema_result.mapping :
                    h # name /\ Normalize(h) = Normalize(name)

\* ============================================ claims: the row-hash pipeline
\* The plan has run to its end and given both rows a ROW_HASH.
RowsHashed == rh.pc = "done" /\ rh.row_hash /\ rh.frame = {1, 2}

\* The minute of the instant a DATA_TIME text denotes (a date alone denotes
\* its midnight); none for a text that denotes no instant.
MinuteOf(text) == IF text.form = "bad" THEN None ELSE Some(text.minute)

\* C13 (as claimed): two rows, of one file or of two, with the same device
\* id and timestamps in the same minute get the same ROW_HASH, whatever
\* their measurement values, column order and timestamp form.
C13_SameKeySameRowHash ==
    (/\ RowsHashed
     /\ rh.rows[1].METER_ID = rh.rows[2].METER_ID
     /\ MinuteOf(rh.rows[1].DATA_TIME) # None
     /\ MinuteOf(rh.rows[1].DATA_TIME) = MinuteOf(rh.rows[2].DATA_TIME)) =>
        rh.ROW_HASH[1] = rh.ROW_HASH[2]

\* C14 (as claimed, for the rows whose timestamp could not be parsed): two
\* such rows with different device ids get different ROW_HASH values, the
\* string hash being collision-free.
C14_DifferentKeyDifferentRowHash ==
    (/\ RowsHashed
     /\ rh.DATA_TIME[1] = None
     /\ rh.DATA_TIME[2] = None
     /\ rh.rows[1].METER_ID # rh.rows[2].METER_ID) =>
        rh.ROW_HASH[1] # rh.ROW_HASH[2]

\* C15: for every unsigned hash value h of the hash's width w (64 in the
\* code), the ROW_HASH stored is h mod (2^(w-1) - 1), which lies in
\* [0, 2^(w-1) - 1): the cast to the signed integer of width w changes
\* neither the value nor the sign and never raises.
C15_RowHashRange ==
    (rh.pc \in {"done", "failed"} /\ rh.row_hash) =>
        \A i \in 1..2 :
            /\ rh.error[i] # "cast"
            /\ i \in rh.frame =>
                  /\ rh.hash[i] \in 0..(Pow2(HashBits) - 1)
                  /\ rh.ROW_HASH[i] =
                         Some(rh.hash[i] % (Pow2(HashBits - 1) - 1))
                  /\ rh.ROW_HASH[i][1] >= 0
                  /\ rh.ROW_HASH[i][1] < Pow2(HashBits - 1) - 1

\* A row whose string hash is the largest unsigned value, with all bits set.
C15_Witness ==
    /\ RowsHashed
    /\ \E i \in 1..2 :
          /\ rh.hash[i] = Pow2(HashBits) - 1
          /\ rh.ROW_HASH[i] = Some(1)

\* =========================================== claims: one load attempt
\* The number of rows staging loaded for attempt a.
Loaded(a) == RowCount(a.file.rows)

\* Attempt a failed for what the program did, not because the warehouse was
\* out of service.
NoOutage(a) == a.error # "warehouse"

\* C16 (as claimed): an attempt whose staged file holds at least one row and
\* which finds no target creates the target, inserts every staged row into
\* it unfiltered and returns SUCCESS with rows_inserted = rows_loaded and no
\* duplicate skipped.
C16_MissingTargetCreatedAndFilled ==
    \A a \in returned :
        (Loaded(a) >= 1 /\ ~a.before.exists /\ NoOutage(a)) =>
            /\ a.ok
            /\ a.after.exists
            /\ a.after.rows = a.file.rows
            /\ a.stats.status = "success"
            /\ a.stats.rows_output = Some(Loaded(a))
            /\ a.stats.rows_duplicates_skipped = Some(0)

\* The staged rows of attempt a whose ROW_HASH no row of the target had when
\* the attempt began.
AbsentRows(a) ==
    [h \in HashVals |-> IF a.before.rows[h] = 0 THEN a.file.rows[h] ELSE 0]

\* C17: an attempt that stages a file with ROW_HASH and finds a target that
\* has the column adds to the target exactly the staged rows whose ROW_HASH
\* was absent from it before the insert, or nothing if it fails before the
\* insert; when it returns SUCCESS it has added them, rows_inserted is the
\* number of rows added and duplicates skipped is rows_loaded minus
\* rows_inserted.
C17_DedupInsertsAbsentRows ==
    \A a \in returned :
        (a.before.exists /\ a.before.hasHash /\ a.file.hasHash) =>
            LET added == [h \in HashVals |->
                            a.after.rows[h] - a.before.rows[h]]
            IN  /\ added \in {EmptyRows, AbsentRows(a)}
                /\ a.ok =>
                      /\ added = AbsentRows(a)
                      /\ a.stats.rows_output = Some(RowCount(added))
                      /\ a.stats.rows_duplicates_skipped =
                            Some(Loaded(a) - RowCount(added))

\* A successful attempt whose file held a row the target had and a row it
\* had not: one inserted, one skipped.
C17_Witness ==
    \E a \in returned :
        /\ a.ok
        /\ a.before.exists /\ a.before.hasHash /\ a.file.hasHash
        /\ a.stats.rows_output = Some(1)
        /\ a.stats.rows_duplicates_skipped = Some(1)
        /\ \E h \in Hashes : a.before.rows[h] > 0 /\ a.file.rows[h] > 0

\* The rows attempt a added to the target.
Added(a) == [h \in HashVals |-> a.after.rows[h] - a.before.rows[h]]

\* No call of attempt a was failed by the warehouse, the existence check of
\* the target included.
Served(a) == a.error \notin {"warehouse", "already_exists"}

\* C18 (as claimed): an attempt whose staged file has no ROW_HASH column and
\* at least one row appends every staged row to the target and returns
\* SUCCESS with rows_inserted = rows_loaded.
C18_NoHashFileAppended ==
    \A a \in returned :
        (~a.file.hasHash /\ Loaded(a) >= 1 /\ Served(a)) =>
            /\ a.ok
            /\ Added(a) = a.file.rows
            /\ a.stats.rows_output = Some(Loaded(a))

\* What the code does for such a file: when the target exists it appends
\* every staged row to it or, if a call fails, none; when it returns SUCCESS
\* it has appended them all and rows_inserted = rows_loaded with no duplicate
\* skipped. When the target does not exist the attempt returns FAILED and
\* the target stays missing: the table to create is clustered on a column
\* the file does not have.
NoHashFileAppendedToExistingTargetOnly ==
    \A a \in returned :
        (~a.file.hasHash /\ Loaded(a) >= 1) =>
            /\ a.before.exists =>
                  /\ Added(a) \in {EmptyRows, a.file.rows}
                  /\ a.ok =>
                        /\ Added(a) = a.file.rows
                        /\ a.stats.rows_output = Some(Loaded(a))
                        /\ a.stats.rows_duplicates_skipped = Some(0)
                  /\ (Served(a) /\ a.error # "no_columns") => a.ok
            /\ ~a.before.exists =>
                  /\ ~a.ok
                  /\ a.after = a.before

\* C19: an attempt for which staging loaded zero rows returns FAILED and
\* leaves the target exactly as it was when the attempt began: not created
\* if it was missing, no row added if it was there.
C19_ZeroRowsFailAndLeaveTarget ==
    \A a \in returned :
        Loaded(a) = 0 =>
            /\ ~a.ok
            /\ a.stats.status = "failed"
            /\ a.stats.rows_input = Some(0)
            /\ a.after = a.before

\* Staging completed with zero rows while the target was missing, and the
\* attempt returned on the zero-row check.
C19_Witness ==
    \E a \in returned :
        /\ Loaded(a) = 0
        /\ a.error = "zero_rows"
        /\ a.temp \in temps
        /\ ~a.before.exists

\* A load attempt of worker w is under way.
InAttempt(w) ==
    ld[w].pc \in {"stage", "discover", "check", "create", "insert", "dedup",
                  "append", "cleanup"}

\* C20: every load attempt that was started is under way or has returned,
\* none has raised past its caller, and each one that has returned gave
\* exactly one of two outcomes: (true, stats with status success) when no
\* step raised, or (false, stats with status failed) whose error_message is
\* the text of the error raised, whatever step raised it, cut to at most
\* ERROR_MESSAGE_CHARS characters.
C20_ExactlyOneOfTwoOutcomes ==
    /\ \A w \in SeqWorkers :
          /\ ld[w].attempt =
                Cardinality({a \in returned : a.temp[1] = w})
                    + (IF InAttempt(w) THEN 1 ELSE 0)
          /\ (~InAttempt(w) /\ ld[w].e # NoError) =>
                LET record == ld[w].all_stats[Len(ld[w].all_stats)]
                IN  /\ record.status = "failed"
                    /\ record.error_message.kind = ld[w].e.kind
                    /\ record.error_message.chars =
                          (IF ld[w].e.chars <= ERROR_MESSAGE_CHARS
                           THEN ld[w].e.chars ELSE ERROR_MESSAGE_CHARS)
    /\ \A a \in returned :
          IF a.error = "none"
          THEN /\ a.ok
               /\ a.stats.status = "success"
               /\ a.stats.error_message = NoError
          ELSE /\ ~a.ok
               /\ a.stats.status = "failed"
               /\ a.stats.rows_output = None
               /\ a.stats.error_message.kind = a.error
               /\ a.stats.error_message.chars <= ERROR_MESSAGE_CHARS

\* One attempt returned SUCCESS; the one after it has just failed in
\* cleanup, after its insert had added rows, with an error text longer than
\* ERROR_MESSAGE_CHARS.
C20_Witness ==
    /\ \E a \in returned : a.ok
    /\ \E w \in SeqWorkers, a \in returned :
          /\ ~InAttempt(w)
          /\ a.temp = ld[w].temp_table_id
          /\ ~a.ok
          /\ a.after # a.before
          /\ ld[w].e.chars > ERROR_MESSAGE_CHARS
          /\ a.stats.error_message.chars = ERROR_MESSAGE_CHARS

\* ================================= claims: the transform's rows and fields
\* C21 (as claimed): the plan emits every row the CSV parser produced: a row
\* whose timestamp matches none of the accepted formats is emitted with a
\* null DATA_TIME, a row whose power value is no number with a null power.
C21_NoRowDroppedForFieldValue ==
    rh.pc \in {"done", "failed"} =>
        /\ rh.frame = {1, 2}
        /\ \A i \in 1..2 :
              /\ rh.rows[i].DATA_TIME.form = "bad" => rh.DATA_TIME[i] = None
              /\ rh.rows[i].IMPORT_ACTIVE_POWER = "n/a" =>
                    rh.IMPORT_ACTIVE_POWER[i] = None

\* ============================================ claims: get_csv_headers
\* The separator argument of get_csv_headers: none, or the caller's.
SeparatorArguments == {None} \cup {Some(c) : c \in Range(CandidateSeparators)}

\* C22: for a file whose header cannot be read get_csv_headers returns the
\* empty column list with the comma separator, whatever separator its caller
\* supplies; the run, which supplies none, then neither resolves a schema
\* for the file nor transforms it, goes on with the files that remain, and
\* the skip alone does not make the run return non-zero.
C22_UnreadableHeaderSkipsFile ==
    /\ \A j \in etl.unreadable, separator \in SeparatorArguments :
          get_csv_headers(UnreadableFile, separator) =
              [headers |-> <<>>, separator |-> ","]
    /\ etl.unreadable \subseteq etl.skipped
    /\ \A j \in etl.skipped : j \notin etl.resolved \cup etl.transformed
    /\ (etl.k \in etl.skipped) =>
          /\ etl.current_headers = <<>>
          /\ etl.k \in etl.unreadable => etl.separator = ","
          /\ etl.pc \in {"loop", "done"}
          /\ etl.pc = "done" => (etl.remaining = 0 /\ etl.rc = Some(0))
    /\ (etl.pc = "done" /\ etl.schema_failed = 0
                        /\ etl.transform_failed = 0) => etl.rc = Some(0)

\* The first file could not be read and was skipped, the second was
\* transformed and the run returned 0.
C22_Witness ==
    /\ 1 \in etl.unreadable
    /\ 1 \in etl.skipped
    /\ 2 \in etl.transformed
    /\ etl.success
    /\ etl.pc = "done"
    /\ etl.rc = Some(0)

\* Whatever separator its caller supplies, get_csv_headers returns the empty
\* list and the comma for a file it cannot read; for a file it can read the
\* names it returns hold no quote character and no surrounding whitespace.
UnreadableFileGivesCommaAndNoColumns ==
    hdr.pc = "returned" =>
        /\ ~hdr.file.readable =>
              hdr.returned = [headers |-> <<>>, separator |-> ","]
        /\ \A i \in 1..Len(hdr.returned.headers) :
              LET h == hdr.returned.headers[i]
              IN  /\ \A j \in 1..Len(h) : h[j] # Quote
                  /\ h # <<>> => (h[1] # " " /\ h[Len(h)] # " ")

\* C27 (as claimed): no name in the list get_csv_headers returns is empty,
\* and every name is free of quote characters and of surrounding whitespace.
C27_NoEmptyHeaderName ==
    hdr.pc = "returned" =>
        \A i \in 1..Len(hdr.returned.headers) :
            LET h == hdr.returned.headers[i]
            IN  /\ h # <<>>
                /\ \A j \in 1..Len(h) : h[j] # Quote
                /\ h[1] # " "
                /\ h[Len(h)] # " "

\* ================================================ claims: the loader run
\* The records of load attempts among a run's stats.
UploadRecords(all_stats) ==
    SelectSeq(all_stats, LAMBDA r : r.stage_name = "upload")

\* C29 (as claimed): when a loader run has ended, every staged file it found
\* has a StageStats record of its load attempt in the run's stats, or the
\* run returned non-zero.
C29_EveryFileAccountedFor ==
    \A w \in SeqWorkers :
        (ld[w].pc = "done" /\ ld[w].found > 0) =>
            \/ Len(UploadRecords(ld[w].all_stats)) = ld[w].found
            \/ ld[w].rc # Some(0)

\* C30: every success record of a load attempt has rows_input =
\* rows_output + rows_duplicates_skipped with the three non-negative,
\* rows_input >= 1, rows_filtered = rows_duplicates_skipped, and a filter
\* reason exactly when rows were skipped, whichever branch inserted.
C30_SuccessRecordArithmetic ==
    \A a \in returned :
        a.ok =>
            LET st == a.stats
            IN  /\ st.status = "success"
                /\ st.rows_input # None
                /\ st.rows_output # None
                /\ st.rows_duplicates_skipped # None
                /\ st.rows_input[1] =
                      st.rows_output[1] + st.rows_duplicates_skipped[1]
                /\ st.rows_input[1] >= 1
                /\ st.rows_output[1] >= 0
                /\ st.rows_duplicates_skipped[1] >= 0
                /\ st.rows_filtered = st.rows_duplicates_skipped
                /\ (st.filter_reason # "None") <=>
                      (st.rows_duplicates_skipped[1] > 0)

\* One attempt created the target and inserted its row, the next one
\* skipped the same row in the dedup insert.
C30_Witness ==
    \E a, b \in returned :
        /\ a.ok /\ ~a.before.exists
        /\ a.stats.rows_output = Some(1)
        /\ a.stats.filter_reason = "None"
        /\ b.ok /\ b.before.exists
        /\ b.stats.rows_duplicates_skipped = Some(1)
        /\ b.stats.filter_reason = "duplicate_row_hash"

\* ================================================ claims: the stats table
\* C24 (as claimed): the pipeline_stats table holds at most one record for
\* a run id, source file and stage, after any sequence of loader runs.
C24_OneRecordPerRunFileStage ==
    \A i, j \in 1..Len(audit) :
        StatsKey(audit[i]) = StatsKey(audit[j]) => i = j

\* The part of the claim that holds: a step of a loader run only appends to
\* the table, the records it already holds stay as they are.
StatsOnlyAppended ==
    [][/\ Len(audit') >= Len(audit)
       /\ SubSeq(audit', 1, Len(audit)) = audit]_vars

\* ================================ claims: two load attempts at the same time
\* Both workers' load attempts have returned.
BothReturned ==
    \A w \in Workers : ld[w].pc = "loop" /\ ld[w].attempt = 1

\* The target before either of two attempts inserted: the one of the two
\* targets seen at the start that is not ahead of the other.
TargetAtStart(a, b) ==
    IF RowCount(a.before.rows) <= RowCount(b.before.rows)
    THEN a.before ELSE b.before

\* The rows of target t after the attempt for file rows s1 has run to its
\* end on it and then the attempt for file rows s2: a ROW_HASH value keeps
\* the rows of whichever had it first.
OneAfterTheOther(t, s1, s2) ==
    [h \in HashVals |->
        IF h = 0 THEN t[h] + s1[h] + s2[h]
        ELSE IF t[h] > 0 THEN t[h]
        ELSE IF s1[h] > 0 THEN s1[h]
        ELSE s2[h]]

\* C23: two load attempts on an existing target with a ROW_HASH column, run
\* at the same time with files that carry ROW_HASH, both successful: no
\* ROW_HASH value gets rows from both, the rows inserted are the rows the
\* two records count, and the target ends with the rows that running the
\* two attempts one after the other, in one of the two orders, gives.
C23_ConcurrentDedupAsSequential ==
    \A a, b \in returned :
        LET t0 == TargetAtStart(a, b)
        IN  (/\ BothReturned
             /\ a.temp[1] = 1 /\ b.temp[1] = 2
             /\ a.ok /\ b.ok
             /\ a.file.hasHash /\ b.file.hasHash
             /\ a.before.exists /\ b.before.exists
             /\ t0.hasHash)
            =>
            /\ target.rows \in
                  {OneAfterTheOther(t0.rows, a.file.rows, b.file.rows),
                   OneAfterTheOther(t0.rows, b.file.rows, a.file.rows)}
            /\ \A h \in Hashes :
                  target.rows[h] - t0.rows[h] \in
                      {0, a.file.rows[h], b.file.rows[h]}
            /\ a.stats.rows_output[1] + b.stats.rows_output[1] =
                  RowCount(target.rows) - RowCount(t0.rows)

\* Both attempts began on the same target, their files share a ROW_HASH
\* value the target did not have, and one of them skipped its row.
C23_Witness ==
    \E a, b \in returned :
        /\ BothReturned
        /\ a.temp[1] = 1 /\ b.temp[1] = 2
        /\ a.ok /\ b.ok
        /\ a.before = b.before
        /\ a.before.exists /\ a.before.hasHash
        /\ \E h \in Hashes :
              /\ a.before.rows[h] = 0
              /\ a.file.rows[h] > 0 /\ b.file.rows[h] > 0
              /\ target.rows[h] > 0
        /\ \/ a.stats.rows_duplicates_skipped = Some(1)
           \/ b.stats.rows_duplicates_skipped = Some(1)

\* What holds of the attempts that have returned, for a target the loader
\* created: a successful attempt's ROW_HASH values are all in the target, and
\* an attempt whose create_table met the table is failed, with no rows
\* counted as inserted.
CreationRaceOutcomes ==
    \A a \in returned :
        /\ (a.ok /\ target.fromLoader) =>
              \A h \in HashVals : a.file.rows[h] > 0 => target.rows[h] > 0
        /\ a.error = "already_exists" =>
              /\ ~a.ok
              /\ a.stats.status = "failed"
              /\ a.stats.rows_output = None

\* A step on a target that is there: the table stays and keeps its rows, and
\* a worker that is at create_table returns from its attempt, failed,
\* without changing the target.
CreationRaceStep ==
    target.exists =>
        /\ target'.exists
        /\ \A h \in HashVals : target'.rows[h] >= target.rows[h]
        /\ \A w \in Workers :
              (ld[w].pc = "create" /\ ld'[w] # ld[w]) =>
                  /\ target' = target
                  /\ ld'[w].pc = "loop"
                  /\ \E a \in returned' \ returned :
                        a.temp = ld[w].temp_table_id /\ ~a.ok

\* C28: two load attempts at the same time on a target that is missing: the
\* target is created at most once, every successful attempt has its staged
\* rows' ROW_HASH values in the target, and the attempt that finds the table
\* created under it fails without inserting a row.
C28_CreationRace ==
    []CreationRaceOutcomes /\ [][CreationRaceStep]_vars

\* Both attempts began with the target missing; one created it and loaded
\* its rows, the other met the table at create_table and failed.
C28_Witness ==
    \E a, b \in returned :
        /\ a.temp[1] # b.temp[1]
        /\ ~a.before.exists /\ ~b.before.exists
        /\ a.ok /\ a.stats.rows_output = Some(RowCount(a.file.rows))
        /\ b.error = "already_exists" /\ ~b.ok
        /\ target.fromLoader
        /\ target.rows = a.file.rows

====
